---- MODULE Spec2Model ----
(***************************************************************************)
(* Model of the 3FWar simulation engine: the hex grid (hex_grid.py), the   *)
(* mercenary pool and the faction AI (faction.py) and the hour-stepped     *)
(* orchestrator (simulation.py).                                           *)
(*                                                                         *)
(* Representation:                                                         *)
(*   - a Hex is the pair <<q, r>>; a HexCell is a record, identified by    *)
(*     its hex; the grid's dict `cells` is the pair of a function          *)
(*     (grid.cells) and its insertion order (grid.order);                  *)
(*   - Python's None is the string "none" for owners and -1 for            *)
(*     mission_complete_hour;                                              *)
(*   - mission_complete_hour is kept in half-hours (h + 0.5 is 2h + 1);    *)
(*   - the ring multiplier is kept in hundredths (RingPercent), and        *)
(*     base_value * multiplier is the exact product, an integer for the    *)
(*     base values of the model, which are multiples of 10.                *)
(***************************************************************************)
EXTENDS Integers, Sequences, FiniteSets, TLC

VARIABLES
    grid,              \* Simulation.grid: [cells, order]
    mercs,             \* Simulation.mercenary_pool.mercenaries
    current_hour,      \* Simulation.current_hour
    current_day,       \* Simulation.current_day
    current_week,      \* Simulation.current_week
    credits,           \* Faction.credits, per colour
    daily_production,  \* Faction.daily_production, per colour
    last,              \* the last call made and the boolean it returned
    phases,            \* the calls the last step_hour made, in the order it made them
    saved              \* the records save_state has returned and the caller keeps

vars == <<grid, mercs, current_hour, current_day, current_week,
          credits, daily_production, last, phases, saved>>

---------------------------------------------------------------------------
(* Bounds of the model *)

\* number of mercenaries in the pool, MercenaryPool(initial_size)
PoolSize == 2
\* step_hour is called while current_hour < MaxHour
MaxHour == 2
\* callers reach into the simulation's AIs while current_hour < CallsBefore
CallsBefore == 1
\* allocate is called with a count in 0..MaxCount
MaxCount == 3
\* MercenaryPool.min_size and max_size, 300 and 5000 in the code: the pool is
\* scaled down, with PoolSize for the 300 mercenaries a Simulation starts with
min_size == 2
max_size == 4
\* adjust_size is called with a delta in -MaxDelta..MaxDelta
MaxDelta == 3
\* produce_resources is called from outside while fewer than MaxProduce calls
\* of it have been made
MaxProduce == 3
\* distances are taken between hexes of coordinates in -MaxCoord..MaxCoord
MaxCoord == 3

---------------------------------------------------------------------------
(* Small helpers *)

None == "none"
NoHour == -1

Abs(x) == IF x < 0 THEN -x ELSE x

Range(s) == {s[i] : i \in DOMAIN s}

Factions == <<"orange", "green", "blue">>
FactionSet == Range(Factions)

---------------------------------------------------------------------------
(* hex_grid.py: Hex *)

Directions == << <<1, 0>>, <<1, -1>>, <<0, -1>>, <<-1, 0>>, <<-1, 1>>, <<0, 1>> >>

neighbors(h) == [i \in 1..6 |-> <<h[1] + Directions[i][1], h[2] + Directions[i][2]>>]

distance_from_center(h) == (Abs(h[1]) + Abs(h[1] + h[2]) + Abs(h[2])) \div 2

distance_to_by_steps(h, other) == Abs(h[1] - other[1]) + Abs(h[2] - other[2])

distance_to(h, other) ==
    (Abs(h[1] - other[1]) + Abs(h[1] + h[2] - other[1] - other[2]) + Abs(h[2] - other[2])) \div 2

---------------------------------------------------------------------------
(* hex_grid.py: HexCell *)

HexCell(owner, is_home, is_permanent, native_sector) ==
    [owner |-> owner, is_home |-> is_home, is_permanent |-> is_permanent,
     native_sector |-> native_sector, resources |-> 0, protection_until |-> 0]

is_protected_inclusive(cell, hour) == hour <= cell.protection_until

is_protected(cell, hour) == hour < cell.protection_until

ProtectionDuration == 3

set_protection_adding(cell, hour) == [cell EXCEPT !.protection_until = @ + ProtectionDuration]

set_protection(cell, hour) == [cell EXCEPT !.protection_until = hour + ProtectionDuration]

\* _get_ring_multiplier, in hundredths
RingPercent_uncapped(ring) == 100 + 10 * ring

RingPercent(ring) ==
    IF ring = 0 THEN 100
    ELSE IF ring = 1 THEN 110
    ELSE IF ring = 2 THEN 120
    ELSE IF ring = 3 THEN 130
    ELSE 140

\* cell.produce_resources(base_value), for the cell of hex h
produce_resources_of(cell, h, base_value) ==
    [cell EXCEPT !.resources = @ + (base_value * RingPercent(distance_from_center(h))) \div 100]

\* cell.produce_resources(), with the default base_value of 100.0
produce_resources(cell, h) == produce_resources_of(cell, h, 100)

\* a reset that clears the owner and the resources and lets the protection run
reset_keeping_protection(cell) ==
    IF ~cell.is_home /\ ~cell.is_permanent
    THEN [cell EXCEPT !.owner = None, !.resources = 0]
    ELSE cell

reset(cell) ==
    IF ~cell.is_home /\ ~cell.is_permanent
    THEN [cell EXCEPT !.owner = None, !.resources = 0, !.protection_until = 0]
    ELSE cell

---------------------------------------------------------------------------
(* hex_grid.py: HexGrid *)

_determine_native_sector(h) ==
    LET abs_q == Abs(h[1])
        abs_r == Abs(h[2])
        abs_s == Abs(-h[1] - h[2])
    IN  IF abs_q <= abs_r /\ abs_q <= abs_s THEN "orange"
        ELSE IF abs_s <= abs_q /\ abs_s <= abs_r THEN "green"
        ELSE "blue"

grey_coords ==
    << <<0, 0>>, <<0, -1>>, <<1, -1>>, <<1, 0>>, <<0, 1>>, <<-1, 1>>, <<-1, 0>>, <<-2, 0>>,
       <<2, -2>>, <<0, 2>>, <<0, 3>>, <<-3, 0>>, <<3, -3>>, <<3, -4>>, <<4, -4>>, <<4, -3>>,
       <<1, 3>>, <<0, 4>>, <<-1, 4>>, <<-4, 1>>, <<-4, 0>>, <<-3, -1>> >>

orange_coords ==
    << <<0, -2>>, <<0, -3>>, <<0, -4>>, <<1, -2>>, <<1, -3>>, <<1, -4>>, <<2, -3>>, <<2, -4>>,
       <<-1, -1>>, <<-1, -2>>, <<-1, -3>>, <<-2, -1>>, <<-2, -2>> >>

blue_coords ==
    << <<2, 0>>, <<3, 0>>, <<4, 0>>, <<1, 1>>, <<2, 1>>, <<3, 1>>, <<1, 2>>, <<2, 2>>,
       <<2, -1>>, <<3, -1>>, <<4, -1>>, <<3, -2>>, <<4, -2>> >>

green_coords ==
    << <<-2, 2>>, <<-3, 3>>, <<-4, 4>>, <<-2, 1>>, <<-3, 2>>, <<-4, 3>>, <<-3, 1>>, <<-4, 2>>,
       <<-1, 2>>, <<-2, 3>>, <<-3, 4>>, <<-1, 3>>, <<-2, 4>> >>

yellow_coords ==
    << <<-5, 0>>, <<-5, 1>>, <<-5, 2>>, <<-5, 3>>, <<-5, 4>>, <<-5, 5>>, <<-4, -1>>, <<-4, 5>>,
       <<-3, -2>>, <<-3, 5>>, <<-2, -3>>, <<-2, 5>>, <<-1, -4>>, <<-1, 5>>, <<0, -5>>, <<0, 5>>,
       <<1, -5>>, <<1, 4>>, <<2, -5>>, <<2, 3>>, <<3, -5>>, <<3, 2>>, <<4, -5>>, <<4, 1>>,
       <<5, -5>>, <<5, -4>>, <<5, -3>>, <<5, -2>>, <<5, -1>>, <<5, 0>> >>

\* HexGrid.initial_hexes: filled by _initialize_grid and never changed afterwards
initial_hexes ==
    Range(grey_coords) \cup Range(orange_coords) \cup Range(blue_coords)
        \cup Range(green_coords) \cup Range(yellow_coords)

\* the grid built by HexGrid.__init__
_initialize_grid ==
    LET founding(h) ==
            IF h \in Range(grey_coords) THEN "grey"
            ELSE IF h \in Range(orange_coords) THEN "orange"
            ELSE IF h \in Range(blue_coords) THEN "blue"
            ELSE IF h \in Range(green_coords) THEN "green"
            ELSE None
    IN  [cells |-> [h \in initial_hexes |->
                      IF founding(h) # None
                      THEN HexCell(founding(h), TRUE, TRUE, _determine_native_sector(h))
                      ELSE HexCell(None, FALSE, FALSE, _determine_native_sector(h))],
         order |-> grey_coords \o orange_coords \o blue_coords \o green_coords \o yellow_coords]

\* the neighbouring cells present in the grid, in the order of Hex.neighbors
get_neighbors(g, h) ==
    LET present(n) == n \in DOMAIN g.cells
    IN  SelectSeq(neighbors(h), present)

\* the cell added counts as a home cell
expand_grid_as_home(g, h) ==
    IF h \notin DOMAIN g.cells
    THEN [cells |-> [x \in DOMAIN g.cells \cup {h} |->
                        IF x = h THEN HexCell(None, TRUE, FALSE, _determine_native_sector(h))
                        ELSE g.cells[x]],
          order |-> Append(g.order, h)]
    ELSE g

expand_grid(g, h) ==
    IF h \notin DOMAIN g.cells
    THEN [cells |-> [x \in DOMAIN g.cells \cup {h} |->
                        IF x = h THEN HexCell(None, FALSE, FALSE, _determine_native_sector(h))
                        ELSE g.cells[x]],
          order |-> Append(g.order, h)]
    ELSE g

can_remove_hex_beside_owned(g, h) ==
    /\ h \notin initial_hexes
    /\ h \in DOMAIN g.cells
    /\ g.cells[h].owner = None

can_remove_hex(g, h) ==
    /\ h \notin initial_hexes
    /\ h \in DOMAIN g.cells
    /\ g.cells[h].owner = None
    /\ \A n \in Range(get_neighbors(g, h)) : g.cells[n].owner = None

remove_hex(g, h) ==
    IF can_remove_hex(g, h)
    THEN LET keep(x) == x # h
         IN  [cells |-> [x \in DOMAIN g.cells \ {h} |-> g.cells[x]],
              order |-> SelectSeq(g.order, keep)]
    ELSE g

\* cells are listed in the iteration order of the dict
get_faction_cells(g, faction) ==
    LET mine(h) == g.cells[h].owner = faction
    IN  SelectSeq(g.order, mine)

get_home_cells(g, faction) ==
    LET home(h) == g.cells[h].owner = faction /\ g.cells[h].is_home
    IN  SelectSeq(g.order, home)

RECURSIVE Flood(_, _, _, _)
Flood(g, owner, connected, frontier) ==
    IF frontier = {} THEN connected
    ELSE LET found == {n \in UNION {Range(get_neighbors(g, h)) : h \in frontier} :
                          g.cells[n].owner = owner /\ n \notin connected}
         IN  Flood(g, owner, connected \cup found, found)

find_connected_cells(g, start_cells) ==
    IF start_cells = <<>> THEN {}
    ELSE Flood(g, g.cells[start_cells[1]].owner, Range(start_cells), Range(start_cells))

\* The same search as the code runs it, with its list `frontier`: the hexes
\* one turn of the while loop adds to connected and appends to frontier, in
\* the order of get_neighbors
Found_any_owner(g, owner, connected, current_hex) ==
    SelectSeq(get_neighbors(g, current_hex), LAMBDA n : n \notin connected)

Found(g, owner, connected, current_hex) ==
    SelectSeq(get_neighbors(g, current_hex),
              LAMBDA n : g.cells[n].owner = owner /\ n \notin connected)

\* the while loop: frontier.pop() takes the last hex of the list
RECURSIVE Search(_, _, _, _)
Search(g, owner, connected, frontier) ==
    IF frontier = <<>> THEN connected
    ELSE LET current_hex == frontier[Len(frontier)]
             found == Found(g, owner, connected, current_hex)
         IN  Search(g, owner, connected \cup Range(found),
                    SubSeq(frontier, 1, Len(frontier) - 1) \o found)

\* find_connected_cells when list(connected) lists the set of seeds in the
\* order `frontier`
find_connected_cells_in(g, start_cells, frontier) ==
    IF start_cells = <<>> THEN {}
    ELSE Search(g, g.cells[start_cells[1]].owner, Range(start_cells), frontier)

---------------------------------------------------------------------------
(* faction.py: Mission *)

Mission(mission_type, target_hex, faction) ==
    [type |-> mission_type, target |-> target_hex, faction |-> faction]

NoMission == [type |-> "none", target |-> <<0, 0>>, faction |-> None]

---------------------------------------------------------------------------
(* faction.py: Mercenary, MercenaryPool *)

Mercenary == [assigned |-> FALSE, mission_complete_hour |-> NoHour]

MercenaryPool(initial_size) == [i \in 1..initial_size |-> Mercenary]

\* duration = 0.5 hours, in half-hours
MissionDuration == 1

assign_mission_full_hour(m, hour) ==
    [assigned |-> TRUE, mission_complete_hour |-> 2 * hour + 2 * MissionDuration]

assign_mission(m, hour) ==
    [assigned |-> TRUE, mission_complete_hour |-> 2 * hour + MissionDuration]

is_available(m, hour) ==
    IF ~m.assigned THEN TRUE
    ELSE IF m.mission_complete_hour # NoHour /\ 2 * hour >= m.mission_complete_hour THEN TRUE
    ELSE FALSE

release(m) == [assigned |-> FALSE, mission_complete_hour |-> NoHour]

get_available_count(pool, hour) ==
    Cardinality({i \in DOMAIN pool : is_available(pool[i], hour)})

allocate_partial(pool, count, hour) ==
    LET available == {i \in DOMAIN pool : is_available(pool[i], hour)}
        rank(i) == Cardinality({j \in available : j <= i})
    IN  [ok |-> Cardinality(available) >= count,
         mercenaries |-> [i \in DOMAIN pool |->
                            IF i \in available /\ rank(i) <= count
                            THEN assign_mission(pool[i], hour)
                            ELSE pool[i]]]

\* returns the pair [ok, mercenaries]: allocate's result and the pool it leaves
allocate(pool, count, hour) ==
    LET available == {i \in DOMAIN pool : is_available(pool[i], hour)}
        \* position of i in the list `available`
        rank(i) == Cardinality({j \in available : j <= i})
    IN  IF Cardinality(available) >= count
        THEN [ok |-> TRUE,
              mercenaries |-> [i \in DOMAIN pool |->
                                 IF i \in available /\ rank(i) <= count
                                 THEN assign_mission(pool[i], hour)
                                 ELSE pool[i]]]
        ELSE [ok |-> FALSE, mercenaries |-> pool]

process_hour_late(pool, hour) ==
    [i \in DOMAIN pool |->
        IF pool[i].assigned /\ pool[i].mission_complete_hour # NoHour
           /\ 2 * hour >= pool[i].mission_complete_hour + 2 * MissionDuration
        THEN release(pool[i])
        ELSE pool[i]]

process_hour(pool, hour) ==
    [i \in DOMAIN pool |->
        IF pool[i].assigned /\ pool[i].mission_complete_hour # NoHour
           /\ 2 * hour >= pool[i].mission_complete_hour
        THEN release(pool[i])
        ELSE pool[i]]

---------------------------------------------------------------------------
(* faction.py: FactionAI._calculate_mission_reward *)

Max(a, b) == IF a >= b THEN a ELSE b

_get_territory_counts(g) == [f \in FactionSet |-> Len(get_faction_cells(g, f))]

\* max(counts, key=counts.get): the first of orange, green, blue that has the
\* largest count
_get_faction_with_most_territories(counts) ==
    LET best == {i \in DOMAIN Factions : \A j \in DOMAIN Factions :
                    counts[Factions[i]] >= counts[Factions[j]]}
        first == CHOOSE i \in best : \A j \in best : i <= j
    IN  [color |-> Factions[first], count |-> counts[Factions[first]]]

\* min(counts, key=counts.get): the first of orange, green, blue that has the
\* smallest count
_get_faction_with_least_territories(counts) ==
    LET best == {i \in DOMAIN Factions : \A j \in DOMAIN Factions :
                    counts[Factions[i]] <= counts[Factions[j]]}
        first == CHOOSE i \in best : \A j \in best : i <= j
    IN  [color |-> Factions[first], count |-> counts[Factions[first]]]

\* base_rewards
BaseReward(mission_type) ==
    IF mission_type = "claim" THEN 1000
    ELSE IF mission_type = "disrupt" THEN 5000
    ELSE 3000

\* int(reward * min(1 + (most / max(least, 1) - 1) * 0.5, 3.0)): the multiplier
\* is (most + d) / (2 * d) for d = max(least, 1). The floats of the code give
\* the integer of the exact quotient for all counts below 25.
ScaleUp_inverted(reward, most, least) ==
    (reward * least) \div Max(most, 1)

ScaleUp(reward, most, least) ==
    LET d == Max(least, 1)
    IN  IF most + d >= 6 * d THEN 3 * reward
        ELSE (reward * (most + d)) \div (2 * d)

\* int(reward * max(0.3, least / max(most, 1)))
ScaleDown_unfloored(reward, most, least) ==
    (reward * least) \div Max(most, 1)

ScaleDown(reward, most, least) ==
    LET d == Max(most, 1)
    IN  IF 10 * least <= 3 * d THEN (3 * reward) \div 10
        ELSE (reward * least) \div d

_calculate_mission_reward(g, color, mission_type, target) ==
    LET territory_counts == _get_territory_counts(g)
        most == _get_faction_with_most_territories(territory_counts)
        least == _get_faction_with_least_territories(territory_counts)
        base == BaseReward(mission_type)
        target_owner == IF target \in DOMAIN g.cells THEN g.cells[target].owner ELSE None
        by_executor ==
            IF color = least.color
            THEN IF least.count > 0 THEN ScaleUp(base, most.count, least.count)
                 ELSE 3 * base
            ELSE IF color = most.color
            THEN IF most.count > 0 THEN ScaleDown(base, most.count, least.count)
                 ELSE base
            ELSE base
        by_target ==
            IF target_owner = least.color
            THEN IF most.count > 0 THEN ScaleDown(base, most.count, least.count)
                 ELSE base
            ELSE IF target_owner = most.color
            THEN IF least.count > 0 THEN ScaleUp(base, most.count, least.count)
                 ELSE base
            ELSE base
        reward == IF mission_type = "disrupt" THEN by_target ELSE by_executor
    IN  Max(100, reward)

---------------------------------------------------------------------------
(* faction.py: FactionAI.execute_mission *)

\* every hex counts as reachable
_is_hex_reachable_everywhere(g, target_hex, connected) == TRUE

_is_hex_reachable_any_owner(g, target_hex, connected) ==
    \/ target_hex \in connected
    \/ \E n \in Range(get_neighbors(g, target_hex)) : g.cells[n].owner # None

_is_hex_reachable(g, target_hex, connected) ==
    \/ target_hex \in connected
    \/ \E n \in Range(get_neighbors(g, target_hex)) : n \in connected

RECURSIVE ExpandFrom(_, _, _)
ExpandFrom(g, claimed_hex, i) ==
    IF i > 6 THEN g
    ELSE ExpandFrom(expand_grid(g, neighbors(claimed_hex)[i]), claimed_hex, i + 1)

\* the grid grown at the first neighbouring coordinate only
_expand_grid_if_needed_once(g, claimed_hex) == expand_grid(g, neighbors(claimed_hex)[1])

_expand_grid_if_needed(g, claimed_hex) == ExpandFrom(g, claimed_hex, 1)

\* the owner transfer of a successful mission: the target changes owner and is
\* protected, and so is every neighbour the executing faction owns
TakeCell(g, color, target, hour) ==
    LET nbrs == Range(get_neighbors(g, target))
    IN  [g EXCEPT !.cells =
            [h \in DOMAIN g.cells |->
                IF h = target
                THEN set_protection([g.cells[h] EXCEPT !.owner = color], hour)
                ELSE IF h \in nbrs /\ g.cells[h].owner = color
                THEN set_protection(g.cells[h], hour)
                ELSE g.cells[h]]]

ClaimAllowed_anywhere(g, color, mission, connected) ==
    /\ mission.target \in DOMAIN g.cells
    /\ g.cells[mission.target].owner = None
    /\ ~g.cells[mission.target].is_permanent

ClaimAllowed(g, color, mission, connected) ==
    /\ mission.target \in DOMAIN g.cells
    /\ g.cells[mission.target].owner = None
    /\ ~g.cells[mission.target].is_permanent
    /\ _is_hex_reachable(g, mission.target, connected)

DisruptEligible_permanent(g, color, mission, connected) ==
    /\ mission.target \in DOMAIN g.cells
    /\ g.cells[mission.target].owner \notin {None, color}
    /\ _is_hex_reachable(g, mission.target, connected)

DisruptEligible_own(g, color, mission, connected) ==
    /\ mission.target \in DOMAIN g.cells
    /\ g.cells[mission.target].owner # None
    /\ ~g.cells[mission.target].is_home
    /\ ~g.cells[mission.target].is_permanent
    /\ _is_hex_reachable(g, mission.target, connected)

DisruptEligible(g, color, mission, connected) ==
    /\ mission.target \in DOMAIN g.cells
    /\ g.cells[mission.target].owner \notin {None, color}
    /\ ~g.cells[mission.target].is_home
    /\ ~g.cells[mission.target].is_permanent
    /\ _is_hex_reachable(g, mission.target, connected)

MissionFailed_expanding(g, mercenaries, mission) ==
    [grid |-> _expand_grid_if_needed(g, mission.target), mercenaries |-> mercenaries,
     success |-> FALSE]

\* `success = False` after the allocation: nothing but the pool has changed
MissionFailed(g, mercenaries, mission) ==
    [grid |-> g, mercenaries |-> mercenaries, success |-> FALSE]

\* returns [grid, mercenaries, success] for the AI of faction `color`
execute_mission(g, pool, color, mission, hour) ==
    LET alloc == allocate(pool, 1, hour)
        connected == find_connected_cells(g, get_home_cells(g, color))
        failed == MissionFailed(g, alloc.mercenaries, mission)
    IN  IF ~alloc.ok
        THEN [grid |-> g, mercenaries |-> pool, success |-> FALSE]
        ELSE IF mission.type = "claim"
        THEN IF ClaimAllowed(g, color, mission, connected)
             THEN [grid |-> _expand_grid_if_needed(
                                TakeCell(g, color, mission.target, hour), mission.target),
                   mercenaries |-> alloc.mercenaries, success |-> TRUE]
             ELSE failed
        ELSE IF mission.type \in {"disrupt", "reclaim"}
        THEN IF DisruptEligible(g, color, mission, connected)
             THEN IF ~is_protected(g.cells[mission.target], hour)
                  THEN [grid |-> TakeCell(g, color, mission.target, hour),
                        mercenaries |-> alloc.mercenaries, success |-> TRUE]
                  ELSE failed
             ELSE failed
        ELSE failed

---------------------------------------------------------------------------
(* faction.py: FactionAI.evaluate_missions *)

\* s without the later occurrences of an element (the `seen` set of the loops)
RECURSIVE DedupFrom(_, _, _)
DedupFrom(s, i, kept) ==
    IF i > Len(s) THEN kept
    ELSE DedupFrom(s, i + 1, IF s[i] \in Range(kept) THEN kept ELSE Append(kept, s[i]))

Dedup(s) == DedupFrom(s, 1, <<>>)

\* list.sort(key = distance_from_center): ascending and stable
\* (each element is put behind the ones already placed that are not farther)
RECURSIVE SortFrom(_, _, _)
SortFrom(s, i, sorted) ==
    IF i > Len(s) THEN sorted
    ELSE LET k == Cardinality({j \in DOMAIN sorted :
                        distance_from_center(sorted[j]) <= distance_from_center(s[i])})
         IN  SortFrom(s, i + 1,
                      SubSeq(sorted, 1, k) \o <<s[i]>> \o SubSeq(sorted, k + 1, Len(sorted)))

\* the list in the order its elements were found
SortByDistance_unsorted(s) == s

SortByDistance(s) == SortFrom(s, 1, <<>>)

\* a slice that keeps the whole list
Take_all(s, n) == s

\* s[:n]
Take(s, n) == SubSeq(s, 1, IF Len(s) < n THEN Len(s) ELSE n)

RECURSIVE Flatten(_)
Flatten(ss) == IF ss = <<>> THEN <<>> ELSE Head(ss) \o Flatten(Tail(ss))

Reverse_not(s) == s

Reverse(s) == [i \in DOMAIN s |-> s[Len(s) + 1 - i]]

_find_claim_targets(g, faction_cells, connected) ==
    LET unclaimed(n) == g.cells[n].owner = None
        from(h) == IF h \in connected THEN SelectSeq(get_neighbors(g, h), unclaimed) ELSE <<>>
    IN  SortByDistance(Dedup(Flatten([i \in DOMAIN faction_cells |-> from(faction_cells[i])])))

\* a cell counts as a connection point with a single neighbour of its faction
_would_disconnect_at_one(g, h, faction_color) ==
    \E n \in Range(get_neighbors(g, h)) :
        g.cells[n].owner = faction_color /\ ~g.cells[n].is_home

_would_disconnect(g, h, faction_color) ==
    LET faction_neighbors ==
            {n \in Range(get_neighbors(g, h)) :
                g.cells[n].owner = faction_color /\ ~g.cells[n].is_home}
    IN  ~(Cardinality(faction_neighbors) < 2)

_find_disrupt_targets(g, color, hour) ==
    LET isother(f) == f # color
        other_factions == SelectSeq(Factions, isother)
        connected == find_connected_cells(g, get_home_cells(g, color))
        critical(enemy_color) ==
            LET wanted(h) ==
                    /\ ~(g.cells[h].is_home \/ is_protected(g.cells[h], hour))
                    /\ _is_hex_reachable(g, h, connected)
                    /\ _would_disconnect(g, h, enemy_color)
            IN  IF get_home_cells(g, enemy_color) = <<>> THEN <<>>
                ELSE SelectSeq(get_faction_cells(g, enemy_color), wanted)
    IN  Take(Flatten([i \in DOMAIN other_factions |-> critical(other_factions[i])]), 5)

\* The breadth-first search of _find_shortest_reconnection_path. The queue holds
\* pairs <<hex, path>>. ScanNeighbors is the inner `for neighbor` loop from
\* position i on; it yields [found, path, queue, visited].
RECURSIVE ScanNeighbors(_, _, _, _, _, _, _, _)
ScanNeighbors(g, color, connected, nbrs, i, path, queue, visited) ==
    IF i > Len(nbrs)
    THEN [found |-> FALSE, path |-> <<>>, queue |-> queue, visited |-> visited]
    ELSE IF nbrs[i] \in visited
    THEN ScanNeighbors(g, color, connected, nbrs, i + 1, path, queue, visited)
    ELSE LET new_path == Append(path, nbrs[i])
         IN  IF nbrs[i] \in connected
             THEN [found |-> TRUE, path |-> Reverse(new_path),
                   queue |-> queue, visited |-> visited \cup {nbrs[i]}]
             ELSE ScanNeighbors(g, color, connected, nbrs, i + 1, path,
                                IF g.cells[nbrs[i]].owner # color
                                THEN Append(queue, <<nbrs[i], new_path>>)
                                ELSE queue,
                                visited \cup {nbrs[i]})

RECURSIVE SearchPath(_, _, _, _, _)
SearchPath(g, color, connected, queue, visited) ==
    IF queue = <<>> THEN <<>>
    ELSE LET scan == ScanNeighbors(g, color, connected, get_neighbors(g, Head(queue)[1]), 1,
                                   Head(queue)[2], Tail(queue), visited)
         IN  IF scan.found THEN scan.path
             ELSE SearchPath(g, color, connected, scan.queue, scan.visited)

\* the path as a sequence of hexes; <<>> stands for None
_find_shortest_reconnection_path(g, color, disconnected_hex, connected) ==
    SearchPath(g, color, connected, << <<disconnected_hex, <<>> >> >>, {disconnected_hex})

evaluate_missions(g, color, hour) ==
    LET faction_cells == get_faction_cells(g, color)
        home_cells == get_home_cells(g, color)
        connected == find_connected_cells(g, home_cells)
        isdisconnected(h) == h \notin connected /\ ~g.cells[h].is_home
        disconnected == SelectSeq(faction_cells, isdisconnected)
        paths == [i \in DOMAIN Take(disconnected, 3) |->
                    _find_shortest_reconnection_path(g, color, disconnected[i], connected)]
        haspath(p) == p # <<>>
        found == SelectSeq(paths, haspath)
        reclaims == [i \in DOMAIN found |-> Mission("reclaim", found[i][1], color)]
        claim_targets == Take(_find_claim_targets(g, faction_cells, connected), 5)
        claims == [i \in DOMAIN claim_targets |-> Mission("claim", claim_targets[i], color)]
        disrupt_targets == Take(_find_disrupt_targets(g, color, hour), 2)
        disrupts == [i \in DOMAIN disrupt_targets |-> Mission("disrupt", disrupt_targets[i], color)]
    IN  IF faction_cells = <<>> THEN <<>>
        ELSE reclaims \o claims \o disrupts

---------------------------------------------------------------------------
(* simulation.py: the hourly phases *)

RECURSIVE FloodBody(_, _, _, _)
FloodBody(g, cells, body, frontier) ==
    IF frontier = {} THEN body
    ELSE LET found == {n \in UNION {Range(get_neighbors(g, h)) : h \in frontier} :
                          n \in cells /\ n \notin body}
         IN  FloodBody(g, cells, body \cup found, found)

\* the bodies, as a set of sets of hexes
_find_territory_bodies(g, cells) == {FloodBody(g, cells, {c}, {c}) : c \in cells}

BodyNeighbors(g, body, c) == Cardinality({n \in Range(get_neighbors(g, c)) : n \in body})

\* The hexes that can come first in the list _find_edge_cells returns: the list is
\* built by iterating over a set of cell objects, whose order is not determined,
\* and sorted stably, so edge_cells[0] is any edge cell with the fewest neighbours
\* in the body.
_find_edge_cells_unsorted(g, body) == {c \in body : BodyNeighbors(g, body, c) < 6}

\* only the cells that have no neighbour in the body are edge cells
_find_edge_cells_isolated(g, body) == {c \in body : BodyNeighbors(g, body, c) < 1}

_find_edge_cells(g, body) ==
    LET edge == {c \in body : BodyNeighbors(g, body, c) < 6}
    IN  {c \in edge : \A d \in edge : BodyNeighbors(g, body, c) <= BodyNeighbors(g, body, d)}

RECURSIVE PruneFrom(_, _, _)
PruneFrom(g, reclaimed_hex, i) ==
    IF i > 6 THEN g
    ELSE LET n == neighbors(reclaimed_hex)[i]
             orphan == /\ n \in DOMAIN g.cells
                       /\ g.cells[n].owner = None
                       /\ \A m \in Range(get_neighbors(g, n)) : g.cells[m].owner = None
         IN  PruneFrom(IF orphan THEN remove_hex(g, n) ELSE g, reclaimed_hex, i + 1)

_remove_orphaned_hexes(g, reclaimed_hex) == PruneFrom(g, reclaimed_hex, 1)

ResetCell(g, h) == [g EXCEPT !.cells[h] = reset(@)]

\* the `for body in bodies` loop: the set of grids it can leave
RECURSIVE ShrinkBodies(_, _)
ShrinkBodies(g, bodies) ==
    IF bodies = {} THEN {g}
    ELSE UNION {
            IF _find_edge_cells(g, body) = {} THEN ShrinkBodies(g, bodies \ {body})
            ELSE UNION {ShrinkBodies(_remove_orphaned_hexes(ResetCell(g, c), c), bodies \ {body}) :
                            c \in _find_edge_cells(g, body)} :
            body \in bodies}

ShrinkFaction(g, color) ==
    LET home_cells == get_home_cells(g, color)
        connected == find_connected_cells(g, home_cells)
        disconnected == {h \in Range(get_faction_cells(g, color)) :
                            h \notin connected /\ ~g.cells[h].is_home}
    IN  IF home_cells = <<>> \/ disconnected = {} THEN {g}
        ELSE ShrinkBodies(g, _find_territory_bodies(g, disconnected))

RECURSIVE ShrinkFrom(_, _)
ShrinkFrom(gs, i) ==
    IF i > Len(Factions) THEN gs
    ELSE ShrinkFrom(UNION {ShrinkFaction(g, Factions[i]) : g \in gs}, i + 1)

\* the set of grids _shrink_disconnected_territories can leave
_shrink_disconnected_territories(g) == ShrinkFrom({g}, 1)

\* the connected component of each faction that has home cells
Components(g) ==
    [orange |-> find_connected_cells(g, get_home_cells(g, "orange")),
     green |-> find_connected_cells(g, get_home_cells(g, "green")),
     blue |-> find_connected_cells(g, get_home_cells(g, "blue"))]

_produce_resources(g) ==
    LET comp == Components(g)
    IN  [g EXCEPT !.cells =
            [h \in DOMAIN g.cells |->
                IF g.cells[h].owner \in FactionSet /\ h \in comp[g.cells[h].owner]
                THEN produce_resources(g.cells[h], h)
                ELSE g.cells[h]]]

RECURSIVE SumResources(_, _)
SumResources(g, hs) ==
    IF hs = {} THEN 0
    ELSE LET h == CHOOSE x \in hs : TRUE
         IN  g.cells[h].resources + SumResources(g, hs \ {h})

Deposited_all_cells(g, color) == SumResources(g, Range(get_faction_cells(g, color)))

\* what _process_daily deposits for one faction
Deposited(g, color) ==
    SumResources(g, {h \in Range(get_faction_cells(g, color)) : h \in Components(g)[color]})

\* the grid after _process_daily
DepositAll(g) ==
    LET comp == Components(g)
    IN  [g EXCEPT !.cells =
            [h \in DOMAIN g.cells |->
                IF g.cells[h].owner \in FactionSet /\ h \in comp[g.cells[h].owner]
                THEN [g.cells[h] EXCEPT !.resources = 0]
                ELSE g.cells[h]]]

---------------------------------------------------------------------------
(* faction.py: Faction *)

add_credits(balance, amount) == balance + amount

\* weekly_reset returns the balance it leaves
weekly_reset_to_zero(balance) == 0

weekly_reset(balance) == balance

---------------------------------------------------------------------------
(* simulation.py: step_hour *)

HoursPerDay == 24
HoursPerWeek == 168

\* the tests step_hour makes on the hour it has advanced to
is_new_day(hour) == hour % HoursPerDay = 0

is_new_week_by_day(hour) == (hour \div HoursPerDay) % 7 = 0

is_new_week(hour) == hour % HoursPerWeek = 0

\* the balances _process_weekly leaves
_process_weekly(balances) == [f \in FactionSet |-> weekly_reset(balances[f])]

\* _process_hourly without its first step, the call of process_hour
_process_hourly_without_release(g, pool, hour) ==
    {[grid |-> _produce_resources(shrunk), mercenaries |-> pool] :
        shrunk \in _shrink_disconnected_territories(g)}

\* _process_hourly: the set of states [grid, mercenaries] it can leave
_process_hourly(g, pool, hour) ==
    {[grid |-> _produce_resources(shrunk), mercenaries |-> process_hour(pool, hour)] :
        shrunk \in _shrink_disconnected_territories(g)}

\* random.random() < 0.3 in _process_faction_actions: the draws are bounded so
\* that only missions aimed at the hexes in `region` can pass
GateMayPass(mission, region) == mission.target \in region

\* the `for mission in missions` loop of one faction: the set of states
\* [grid, mercenaries] it can leave
RECURSIVE RunMissions(_, _, _, _, _)
RunMissions(st, color, missions, hour, region) ==
    IF missions = <<>> THEN {st}
    ELSE LET r == execute_mission(st.grid, st.mercenaries, color, Head(missions), hour)
         IN  RunMissions(st, color, Tail(missions), hour, region)
                \cup (IF GateMayPass(Head(missions), region)
                      THEN RunMissions([grid |-> r.grid, mercenaries |-> r.mercenaries],
                                       color, Tail(missions), hour, region)
                      ELSE {})

\* `proposed` holds evaluate_missions for the grid `g0` the hour starts with, so
\* that it is computed once for the turns that find the grid untouched
RECURSIVE RunTurns(_, _, _, _, _, _)
RunTurns(sts, faction_colors, hour, region, g0, proposed) ==
    IF faction_colors = <<>> THEN sts
    ELSE LET color == Head(faction_colors)
             missions(g) == IF g = g0 THEN proposed[color]
                            ELSE evaluate_missions(g, color, hour)
         IN  RunTurns(UNION {RunMissions(st, color, missions(st.grid), hour, region) :
                                st \in sts},
                      Tail(faction_colors), hour, region, g0, proposed)

\* the factions drawn one by one with replacement
Shuffles_with_repeats == [1..Len(Factions) -> FactionSet]

\* the outcomes of random.shuffle
Shuffles == {s \in [1..Len(Factions) -> FactionSet] : \A i, j \in DOMAIN s : s[i] = s[j] => i = j}

\* the set of states [grid, mercenaries] _process_faction_actions can leave
_process_faction_actions(st, hour, region) ==
    LET proposed == [orange |-> evaluate_missions(st.grid, "orange", hour),
                     green |-> evaluate_missions(st.grid, "green", hour),
                     blue |-> evaluate_missions(st.grid, "blue", hour)]
    IN  UNION {RunTurns({st}, faction_colors, hour, region, st.grid, proposed) :
                  faction_colors \in Shuffles}

---------------------------------------------------------------------------
(* simulation.py: reset, get_state, save_state, load_state *)

\* A simulation as the value these operations read and build. Its mercenaries
\* are kept without their id, which no operation reads.
Sim(g, pool, hour, day, week, balances, production) ==
    [grid |-> g, mercenaries |-> pool, current_hour |-> hour, current_day |-> day,
     current_week |-> week, credits |-> balances, daily_production |-> production]

\* the simulation Simulation() builds
__init__(initial_size) ==
    Sim(_initialize_grid, MercenaryPool(initial_size), 0, 0, 0,
        [f \in FactionSet |-> 0], [f \in FactionSet |-> 0])

ResetCredits == 10000

\* the simulation reset() leaves
reset_simulation(initial_size) ==
    Sim(_initialize_grid, MercenaryPool(initial_size), 0, 0, 0,
        [f \in FactionSet |-> ResetCredits], [f \in FactionSet |-> 0])

get_state(sim) ==
    [hour |-> sim.current_hour, day |-> sim.current_day, week |-> sim.current_week,
     factions |-> [f \in FactionSet |->
                     [credits |-> sim.credits[f],
                      daily_production |-> sim.daily_production[f],
                      territory_count |-> Len(get_faction_cells(sim.grid, f))]],
     mercenary_pool |-> Len(sim.mercenaries),
     mercenary_available |-> get_available_count(sim.mercenaries, sim.current_hour)]

\* A str is the sequence of its characters.
DigitChars == <<"0", "1", "2", "3", "4", "5", "6", "7", "8", "9">>

RECURSIVE Digits(_)
Digits(n) ==
    IF n < 10 THEN <<DigitChars[n + 1]>>
    ELSE Append(Digits(n \div 10), DigitChars[(n % 10) + 1])

\* str(n), as the f-string formats an int
IntToStr(n) == IF n < 0 THEN <<"-">> \o Digits(-n) ELSE Digits(n)

\* f"{hex_pos.q},{hex_pos.r}"
hex_key(h) == IntToStr(h[1]) \o <<",">> \o IntToStr(h[2])

RECURSIVE ParseDigits(_, _)
ParseDigits(str, acc) ==
    IF str = <<>> THEN acc
    ELSE ParseDigits(Tail(str),
                     10 * acc + (CHOOSE d \in 0..9 : DigitChars[d + 1] = Head(str)))

\* int(str)
StrToInt(str) ==
    IF Head(str) = "-" THEN -ParseDigits(Tail(str), 0) ELSE ParseDigits(str, 0)

\* Hex(*map(int, hex_str.split(',')))
parse_key(str) ==
    LET comma == CHOOSE i \in DOMAIN str : str[i] = ","
    IN  <<StrToInt(SubSeq(str, 1, comma - 1)), StrToInt(SubSeq(str, comma + 1, Len(str)))>>

save_cell_unprotected(cell) ==
    [owner |-> cell.owner, is_home |-> cell.is_home, is_permanent |-> cell.is_permanent,
     resources |-> cell.resources, protection_until |-> 0]

\* the entry of cells_data for one cell
save_cell(cell) ==
    [owner |-> cell.owner, is_home |-> cell.is_home, is_permanent |-> cell.is_permanent,
     resources |-> cell.resources, protection_until |-> cell.protection_until]

\* The dict save_state returns. The dict `cells` is the sequence of its items,
\* each a key and the entry under it.
save_state(sim) ==
    [current_hour |-> sim.current_hour,
     current_day |-> sim.current_day,
     current_week |-> sim.current_week,
     mercenary_pool_size |-> Len(sim.mercenaries),
     mercenaries |-> [i \in DOMAIN sim.mercenaries |->
                        [assigned |-> sim.mercenaries[i].assigned,
                         mission_complete_hour |-> sim.mercenaries[i].mission_complete_hour]],
     factions |-> [f \in FactionSet |->
                     [credits |-> sim.credits[f],
                      daily_production |-> sim.daily_production[f]]],
     cells |-> [i \in DOMAIN sim.grid.order |->
                  [key |-> hex_key(sim.grid.order[i]),
                   entry |-> save_cell(sim.grid.cells[sim.grid.order[i]])]]]

\* dict.get(key, default)
Get(dict, key, default) == IF key \in DOMAIN dict THEN dict[key] ELSE default

\* the pool without the first n mercenaries that are not assigned
RECURSIVE RemoveUnassigned(_, _)
RemoveUnassigned(pool, n) ==
    IF n = 0 \/ pool = <<>> THEN pool
    ELSE IF ~Head(pool).assigned THEN RemoveUnassigned(Tail(pool), n - 1)
    ELSE <<Head(pool)>> \o RemoveUnassigned(Tail(pool), n)

\* the setter of MercenaryPool.size
set_size_truncating(pool, value) ==
    IF value > Len(pool) THEN pool \o [i \in 1..(value - Len(pool)) |-> Mercenary]
    ELSE SubSeq(pool, 1, value)

set_size(pool, value) ==
    IF value > Len(pool) THEN pool \o [i \in 1..(value - Len(pool)) |-> Mercenary]
    ELSE IF value < Len(pool) THEN RemoveUnassigned(pool, Len(pool) - value)
    ELSE pool

Min(a, b) == IF a <= b THEN a ELSE b

\* MercenaryPool.adjust_size
adjust_size(pool, delta) == set_size(pool, Max(min_size, Min(max_size, Len(pool) + delta)))

\* the pool load_state leaves; default_size is the 300 of state.get
load_pool(pool, state, default_size) ==
    IF "mercenaries" \in DOMAIN state
    THEN [i \in DOMAIN state.mercenaries |->
            [assigned |-> state.mercenaries[i].assigned,
             mission_complete_hour |-> state.mercenaries[i].mission_complete_hour]]
    ELSE set_size(pool, Get(state, "mercenary_pool_size", default_size))

\* the fields of a cell entry load_state reads with cell_data[...]
RequiredCellFields == {"owner", "is_home", "resources", "protection_until"}

load_cell_permanent(cell_data) ==
    [HexCell(cell_data.owner, cell_data.is_home, Get(cell_data, "is_permanent", TRUE), None)
        EXCEPT !.resources = cell_data.resources,
               !.protection_until = cell_data.protection_until]

\* the HexCell load_state builds from an entry
load_cell(cell_data) ==
    [HexCell(cell_data.owner, cell_data.is_home, Get(cell_data, "is_permanent", FALSE), None)
        EXCEPT !.resources = cell_data.resources,
               !.protection_until = cell_data.protection_until]

\* self.grid.cells[hex_pos] = cell for the items lo..hi, in their order: a
\* later item replaces an earlier one with the same hex
RECURSIVE load_items(_, _, _)
load_items(items, lo, hi) ==
    IF lo = hi THEN parse_key(items[lo].key) :> load_cell(items[lo].entry)
    ELSE LET mid == (lo + hi) \div 2
         IN  load_items(items, mid + 1, hi) @@ load_items(items, lo, mid)

\* The grid the `for hex_str, cell_data` loop leaves, filled from the items
\* before the first one that raises KeyError, and whether no item raised. The
\* keys of a dict are distinct, and so are the hexes they are parsed to.
load_cells(items) ==
    LET bad == {i \in DOMAIN items : ~(RequiredCellFields \subseteq DOMAIN items[i].entry)}
        count == IF bad = {} THEN Len(items)
                 ELSE (CHOOSE i \in bad : \A j \in bad : i <= j) - 1
    IN  [ok |-> bad = {},
         grid |-> [cells |-> IF count = 0 THEN <<>> ELSE load_items(items, 1, count),
                   order |-> [i \in 1..count |-> parse_key(items[i].key)]]]

\* returns [ok, sim]: whether load_state returned (or raised KeyError on a
\* cell entry) and the simulation it leaves
load_state(sim, state, default_size) ==
    LET cells == load_cells(state.cells)
    IN  [ok |-> cells.ok,
         sim |-> Sim(cells.grid,
                     load_pool(sim.mercenaries, state, default_size),
                     state.current_hour, state.current_day, state.current_week,
                     [f \in FactionSet |-> state.factions[f].credits],
                     [f \in FactionSet |-> Get(state.factions[f], "daily_production", 0)])]

---------------------------------------------------------------------------
(* Inputs of the model *)

\* The corner of the board between the orange and the blue home territory. The
\* border hexes <<3,-5>> (next to orange), <<4,-5>>, <<5,-5>>, <<5,-4>> and
\* <<5,-3>> (next to blue) lie along the grey base; <<5,-6>> and <<6,-7>> are
\* hexes the grid grows into.
OrangeChain == << <<3, -5>>, <<4, -5>>, <<5, -6>>, <<6, -7>> >>
BlueChain == << <<5, -3>>, <<5, -4>>, <<5, -5>> >>
Region == Range(OrangeChain) \cup Range(BlueChain)

\* a permanent cell of the grey base next to orange's home, and a coordinate
\* that has no cell
PermanentHex == <<3, -4>>
MissingHex == <<9, -9>>

Call(color, mission_type, target_hex, hour) ==
    [color |-> color, mission |-> Mission(mission_type, target_hex, color), hour |-> hour]

\* a hex that only touches the end of the blue chain
BlueSpur == <<6, -6>>

\* the hour each hex of a chain is claimed at
OrangeHours == <<0, 1, 2, 3>>
BlueHours == <<0, 1, 2>>
\* the first hour at which no hex of the chains is protected any more
LateHour == 5

\* the calls ai.execute_mission(mission, hour) made on the AIs of a Simulation
\* that is then stepped: both factions grow their chain and blue cuts orange's
Calls ==
    {Call("orange", "claim", OrangeChain[i], OrangeHours[i]) : i \in 1..4}
        \cup {Call("blue", "claim", BlueChain[i], BlueHours[i]) : i \in 1..3}
        \cup {Call("blue", "disrupt", OrangeChain[2], LateHour),
              Call("orange", "disrupt", PermanentHex, 0)}

\* hexes of the border of orange's home, which orange claims after the first
\* hex of its chain
OrangeRow == << <<2, -5>>, <<1, -5>> >>

\* the calls of Calls, and orange claiming the hexes of OrangeRow
CallsRow ==
    Calls \cup {Call("orange", "claim", OrangeRow[i], OrangeHours[i + 1]) : i \in 1..2}

\* the calls ai.execute_mission(mission, hour) made on AIs that share a grid and
\* a pool, with the hour as the caller passes it
CallsAI ==
    {Call("blue", "claim", BlueChain[1], 0), Call("blue", "claim", BlueChain[2], 0),
     Call("blue", "claim", BlueChain[3], 1), Call("orange", "claim", OrangeChain[1], 1),
     Call("orange", "claim", OrangeChain[2], 2)}
        \cup {Call("blue", "disrupt", OrangeChain[2], h) : h \in 2..LateHour}
        \cup {Call("blue", "reclaim", OrangeChain[2], LateHour + 1),
              Call("blue", "claim", BlueSpur, LateHour),
              Call("orange", "disrupt", BlueChain[3], LateHour),
              Call("orange", "disrupt", OrangeChain[1], LateHour)}
        \cup {Call("orange", k, PermanentHex, 0) : k \in {"claim", "disrupt", "reclaim"}}
        \cup {Call("green", "claim", MissingHex, 0), Call("orange", "sabotage", BlueChain[1], 0)}

\* the hex the orange chain grows into next
OrangeTip == <<7, -8>>

\* the hour the last calls of the first week start at, and the hour the week
\* is followed to
EveHour == HoursPerWeek - 5
WeekHours == HoursPerWeek + 1

\* the calls ai.execute_mission(mission, current_hour) made in the last hours
\* of the week: orange grows its chain, blue grows its own and cuts orange's
\* in the hour before the week ends
CallsEve ==
    {Call("orange", "claim", OrangeChain[1], EveHour),
     Call("orange", "claim", OrangeChain[2], EveHour),
     Call("orange", "claim", OrangeChain[3], EveHour + 1),
     Call("orange", "claim", OrangeChain[4], EveHour + 1),
     Call("orange", "claim", OrangeTip, EveHour + 2),
     Call("blue", "claim", BlueChain[1], EveHour + 2),
     Call("blue", "claim", BlueChain[2], EveHour + 3),
     Call("blue", "claim", BlueChain[3], EveHour + 3),
     Call("blue", "disrupt", OrangeChain[2], EveHour + 4)}

\* the draws of random.random() that let no mission pass
Quiet == {}

\* save_state is called while fewer than MaxSaves records are kept
MaxSaves == 1

\* a dict without some of its keys
Without(dict, keys) == [k \in DOMAIN dict \ keys |-> dict[k]]

\* The shapes of older records: written before the roster of mercenaries was
\* saved (with a pool size, or without one), before daily_production was,
\* before is_permanent was; and a record with a damaged cell entry, the last
\* of the record, whose owner is missing.
OlderShapes == {"pool_size", "no_pool", "no_production", "no_permanent", "no_owner"}

\* the pool sizes found in the records written before the roster was saved
OlderSizes(shape) == IF shape = "pool_size" THEN {PoolSize, PoolSize + 1} ELSE {PoolSize}

Older(state, shape, size) ==
    LET strip(items, field, keys) ==
            [i \in DOMAIN items |->
                IF items[i].key \in keys
                THEN [key |-> items[i].key, entry |-> Without(items[i].entry, {field})]
                ELSE items[i]]
        all_keys == {state.cells[i].key : i \in DOMAIN state.cells}
    IN  CASE shape = "pool_size" ->
                [k \in DOMAIN state \ {"mercenaries"} |->
                    IF k = "mercenary_pool_size" THEN size ELSE state[k]]
          [] shape = "no_pool" -> Without(state, {"mercenaries", "mercenary_pool_size"})
          [] shape = "no_production" ->
                [state EXCEPT !.factions =
                    [f \in FactionSet |-> Without(state.factions[f], {"daily_production"})]]
          [] shape = "no_permanent" ->
                [state EXCEPT !.cells = strip(state.cells, "is_permanent", all_keys)]
          [] shape = "no_owner" ->
                [state EXCEPT !.cells =
                    strip(state.cells, "owner", {state.cells[i].key : i \in {Len(state.cells)}})]

\* factions hold 0..MaxTerritories cells in the grids rewards are computed on
MaxTerritories == 6

\* the row of a faction's cells in those grids
TerritoryRow(f) == IF f = "orange" THEN 0 ELSE IF f = "green" THEN 2 ELSE 4

\* A HexGrid whose cells a caller has written, as the tests do: one row of
\* MaxTerritories cells per faction, the first counts[f] of them owned by f
\* and the others unclaimed.
TerritoryGrid(counts) ==
    LET row(f) == [q \in 1..MaxTerritories |-> <<q, TerritoryRow(f)>>]
        order == row("orange") \o row("green") \o row("blue")
        owner(h) == IF \E f \in FactionSet : h[2] = TerritoryRow(f) /\ h[1] <= counts[f]
                    THEN CHOOSE f \in FactionSet : h[2] = TerritoryRow(f)
                    ELSE None
    IN  [cells |-> [h \in Range(order) |->
                      HexCell(owner(h), FALSE, FALSE, _determine_native_sector(h))],
         order |-> order]

\* the targets rewards are computed for: the first cell of each row, and a hex
\* that has no cell
RewardTargets == {<<1, TerritoryRow(f)>> : f \in FactionSet} \cup {<<9, -9>>}

MissionTypes == {"claim", "disrupt", "reclaim"}

\* the owners whose home cells are the seeds of a search
Owners == FactionSet \cup {"grey"}

\* the lists of seeds find_connected_cells is called with: the home cells of an
\* owner, a single owned hex of the chains, and no seed
SeedLists(g) ==
    {get_home_cells(g, owner) : owner \in Owners}
        \cup {<<h>> : h \in {x \in Region : x \in DOMAIN g.cells /\ g.cells[x].owner # None}}
        \cup {<<>>}

\* orders in which list(connected) may list the seeds: the list, the list
\* turned by half its length, and both of them reversed
SeedOrders(start_cells) ==
    LET n == Len(start_cells)
        turned == [i \in 1..n |-> start_cells[((i - 1 + (n \div 2)) % n) + 1]]
    IN  {start_cells, turned, Reverse(start_cells), Reverse(turned)}

\* a hex the grid grows into when orange claims the first hex of its chain
OrangeFringe == <<4, -6>>

\* the hexes remove_hex is called with: a border hex, a home hex, a hex of
\* the grey base, the hex beside the chain and a coordinate far from every cell
RemoveTargets == {OrangeChain[1], <<2, -4>>, PermanentHex, OrangeFringe, MissingHex}

\* the hexes expand_grid is called with
ExpandTargets == {OrangeChain[1], OrangeFringe, MissingHex}

\* the calls made on the AIs of a Simulation whose grid is also expanded and
\* pruned from outside
CallsRemove ==
    {Call("orange", "claim", OrangeChain[1], 0), Call("orange", "claim", PermanentHex, 0)}

\* the hexes distances are taken between
Hexes == (-MaxCoord..MaxCoord) \X (-MaxCoord..MaxCoord)

\* a hex of ring 6, added to the grid by expand_grid
RingSix == <<0, 6>>

\* the cells produce_resources is called on, one of each ring from 0 to 6, and
\* the base values it is called with
ProduceTargets == {<<0, 0>>, <<1, 0>>, <<0, 2>>, <<0, 3>>, <<0, 4>>, <<0, 5>>, RingSix}
BaseValues == {100, 50}

\* missions that fail whatever the grid holds, executed with the current hour
FailingCalls(hour) ==
    {Call("green", "claim", MissingHex, hour), Call("orange", "claim", PermanentHex, hour)}

---------------------------------------------------------------------------
(* State machine *)

\* `last` before any call; calls that return nothing leave success at FALSE
NoCall == [op |-> "init", success |-> FALSE]

\* Simulation.__init__
Init ==
    /\ grid = _initialize_grid
    /\ mercs = MercenaryPool(PoolSize)
    /\ current_hour = 0
    /\ current_day = 0
    /\ current_week = 0
    /\ credits = [f \in FactionSet |-> 0]
    /\ daily_production = [f \in FactionSet |-> 0]
    /\ last = NoCall
    /\ phases = <<>>
    /\ saved = <<>>

\* ai.execute_mission(mission, hour), called on the AI of faction `color`
ExecuteMission(color, mission, hour) ==
    /\ LET r == execute_mission(grid, mercs, color, mission, hour)
       IN  /\ grid' = r.grid
           /\ mercs' = r.mercenaries
           /\ last' = [op |-> "execute_mission", success |-> r.success]
    /\ UNCHANGED <<current_hour, current_day, current_week, credits, daily_production,
                   phases, saved>>

\* mercenary_pool.allocate(count, hour)
Allocate(count, hour) ==
    /\ LET r == allocate(mercs, count, hour)
       IN  /\ mercs' = r.mercenaries
           /\ last' = [op |-> "allocate", success |-> r.ok]
    /\ UNCHANGED <<grid, current_hour, current_day, current_week, credits, daily_production,
                   phases, saved>>

\* mercenary_pool.process_hour(hour)
ProcessHour(hour) ==
    /\ mercs' = process_hour(mercs, hour)
    /\ last' = [NoCall EXCEPT !.op = "process_hour"]
    /\ UNCHANGED <<grid, current_hour, current_day, current_week, credits, daily_production,
                   phases, saved>>

\* the simulation in the current state
CurrentSim ==
    Sim(grid, mercs, current_hour, current_day, current_week, credits, daily_production)

\* the simulation becomes `sim`
Becomes(sim) ==
    /\ grid' = sim.grid
    /\ mercs' = sim.mercenaries
    /\ current_hour' = sim.current_hour
    /\ current_day' = sim.current_day
    /\ current_week' = sim.current_week
    /\ credits' = sim.credits
    /\ daily_production' = sim.daily_production

\* Simulation.reset
Reset ==
    /\ Becomes(reset_simulation(PoolSize))
    /\ last' = [NoCall EXCEPT !.op = "reset"]
    /\ UNCHANGED <<phases, saved>>

\* state = sim.save_state(), the caller keeping the record
SaveState ==
    /\ Len(saved) < MaxSaves
    /\ saved' = Append(saved, save_state(CurrentSim))
    /\ last' = [NoCall EXCEPT !.op = "save_state"]
    /\ UNCHANGED <<grid, mercs, current_hour, current_day, current_week, credits,
                   daily_production, phases>>

\* sim.load_state(state); success tells whether it returned or raised
LoadState(state) ==
    /\ LET r == load_state(CurrentSim, state, PoolSize)
       IN  /\ Becomes(r.sim)
           /\ last' = [op |-> "load_state", success |-> r.ok]
    /\ UNCHANGED <<phases, saved>>

\* Simulation.step_hour, with the draws of random.random() bounded by `region`
step_hour(region) ==
    LET hour == current_hour + 1
        daily == is_new_day(hour)
        weekly == is_new_week(hour)
        after_weekly == IF weekly THEN _process_weekly(credits) ELSE credits
    IN  /\ current_hour' = hour
        /\ current_day' = IF daily THEN current_day + 1 ELSE current_day
        /\ current_week' = IF weekly THEN current_week + 1 ELSE current_week
        /\ \E hourly \in _process_hourly(grid, mercs, hour) :
             LET produced == hourly.grid
                 deposits(f) == get_home_cells(produced, f) # <<>>
                 deposited == [grid |-> IF daily THEN DepositAll(produced) ELSE produced,
                               mercenaries |-> hourly.mercenaries]
             IN  /\ credits' = [f \in FactionSet |->
                                  IF daily /\ deposits(f)
                                  THEN add_credits(after_weekly[f], Deposited(produced, f))
                                  ELSE after_weekly[f]]
                 /\ daily_production' = [f \in FactionSet |->
                                  IF daily /\ deposits(f)
                                  THEN Deposited(produced, f)
                                  ELSE daily_production[f]]
                 /\ \E st \in _process_faction_actions(deposited, hour, region) :
                      /\ grid' = st.grid
                      /\ mercs' = st.mercenaries
        /\ phases' = (IF weekly THEN <<"_process_weekly">> ELSE <<>>)
                        \o <<"process_hour", "_shrink_disconnected_territories",
                              "_produce_resources">>
                        \o (IF daily THEN <<"_process_daily">> ELSE <<>>)
                        \o <<"_process_faction_actions">>
        /\ last' = [NoCall EXCEPT !.op = "step_hour"]
        /\ UNCHANGED saved

\* step_hour while the clock is below MaxHour
StepHour ==
    /\ current_hour < MaxHour
    /\ step_hour(Region)

\* a Simulation whose AIs are also called from outside, as the tests do
Next ==
    \/ /\ current_hour < CallsBefore
       /\ \E c \in Calls : ExecuteMission(c.color, c.mission, c.hour)
    \/ StepHour

Spec == Init /\ [][Next]_vars

\* the faction AIs on their own
NextAI == \E c \in CallsAI : ExecuteMission(c.color, c.mission, c.hour)

SpecAI == Init /\ [][NextAI]_vars

\* the AIs of a Simulation that is not stepped, called as in Calls
NextChains == \E c \in Calls : ExecuteMission(c.color, c.mission, c.hour)

SpecChains == Init /\ [][NextChains]_vars

\* the faction AIs called as orange widens its border and the chains grow
NextRow == \E c \in CallsRow : ExecuteMission(c.color, c.mission, c.hour)

SpecRow == Init /\ [][NextRow]_vars

\* a Simulation followed through its first week, in which no proposed mission
\* passes the draw, with the calls made on its AIs as the week ends
NextWeek ==
    \/ \E c \in CallsEve :
          /\ current_hour = c.hour
          /\ ExecuteMission(c.color, c.mission, c.hour)
    \/ /\ current_hour < WeekHours
       /\ step_hour(Quiet)

SpecWeek == Init /\ [][NextWeek]_vars

\* a Simulation that is stepped, saved, and loaded from the records kept and
\* from older shapes of them
NextSave ==
    \/ StepHour
    \/ \E c \in FailingCalls(current_hour) : ExecuteMission(c.color, c.mission, c.hour)
    \/ SaveState
    \/ \E state \in Range(saved) : LoadState(state)
    \/ \E state \in Range(saved), shape \in OlderShapes :
          \E size \in OlderSizes(shape) : LoadState(Older(state, shape, size))

SpecSave == Init /\ [][NextSave]_vars

\* a Simulation whose pool is also called from outside
NextPool ==
    \/ \E count \in 0..MaxCount, hour \in 0..MaxHour : Allocate(count, hour)
    \/ \E hour \in 0..MaxHour : ProcessHour(hour)
    \/ \E c \in FailingCalls(current_hour) : ExecuteMission(c.color, c.mission, c.hour)
    \/ StepHour

SpecPool == Init /\ [][NextPool]_vars

\* the same Simulation, also reset
NextReset ==
    \/ NextPool
    \/ Reset

SpecReset == Init /\ [][NextReset]_vars

\* the state after construction, the grid being one of `grids` and the pool
\* being MercenaryPool(initial_size) for one of `sizes`
InitWith(grids, sizes) ==
    /\ grid \in grids
    /\ mercs \in {MercenaryPool(initial_size) : initial_size \in sizes}
    /\ current_hour = 0
    /\ current_day = 0
    /\ current_week = 0
    /\ credits = [f \in FactionSet |-> 0]
    /\ daily_production = [f \in FactionSet |-> 0]
    /\ last = NoCall
    /\ phases = <<>>
    /\ saved = <<>>

\* ai._calculate_mission_reward(mission_type, target), called on the AI of
\* faction `color`
CalculateReward(color, mission_type, target) ==
    /\ last' = [op |-> "_calculate_mission_reward", success |-> FALSE,
                color |-> color, type |-> mission_type, target |-> target,
                reward |-> _calculate_mission_reward(grid, color, mission_type, target)]
    /\ UNCHANGED <<grid, mercs, current_hour, current_day, current_week, credits,
                   daily_production, phases, saved>>

\* rewards computed on grids of every territory count in 0..MaxTerritories
InitReward ==
    InitWith({TerritoryGrid(counts) : counts \in [FactionSet -> 0..MaxTerritories]}, {PoolSize})

\* the call changes nothing of the simulation: one call on each grid shows
\* all that calls on it compute
NextReward ==
    /\ last = NoCall
    /\ \E color \in FactionSet, mission_type \in MissionTypes, target \in RewardTargets :
          CalculateReward(color, mission_type, target)

SpecReward == InitReward /\ [][NextReward]_vars

\* mercenary_pool.adjust_size(delta)
AdjustSize(delta) ==
    /\ mercs' = adjust_size(mercs, delta)
    /\ last' = [op |-> "adjust_size", success |-> FALSE, delta |-> delta, size |-> Len(mercs)]
    /\ UNCHANGED <<grid, current_hour, current_day, current_week, credits, daily_production,
                   phases, saved>>

\* mercenary_pool.size = value
SetSize(value) ==
    /\ mercs' = set_size(mercs, value)
    /\ last' = [op |-> "set_size", success |-> FALSE, value |-> value, size |-> Len(mercs)]
    /\ UNCHANGED <<grid, current_hour, current_day, current_week, credits, daily_production,
                   phases, saved>>

\* pools built with any size up to two beyond max_size, as the tests build
\* them, allocated from in hour 0, released, adjusted and resized
InitAdjust == InitWith({_initialize_grid}, 0..(max_size + 2))

NextAdjust ==
    \/ \E count \in 0..MaxCount : Allocate(count, 0)
    \/ \E hour \in 0..MaxHour : ProcessHour(hour)
    \/ \E delta \in -MaxDelta..MaxDelta : AdjustSize(delta)
    \/ \E value \in 0..(max_size + 2) : SetSize(value)

SpecAdjust == InitAdjust /\ [][NextAdjust]_vars

\* grid.expand_grid(hex_pos)
ExpandGrid(h) ==
    /\ grid' = expand_grid(grid, h)
    /\ last' = [op |-> "expand_grid", success |-> FALSE, target |-> h]
    /\ UNCHANGED <<mercs, current_hour, current_day, current_week, credits, daily_production,
                   phases, saved>>

\* grid.remove_hex(hex_pos); success tells what can_remove_hex returned
RemoveHex(h) ==
    /\ grid' = remove_hex(grid, h)
    /\ last' = [op |-> "remove_hex", success |-> can_remove_hex(grid, h), target |-> h]
    /\ UNCHANGED <<mercs, current_hour, current_day, current_week, credits, daily_production,
                   phases, saved>>

\* a Simulation that is not stepped, whose grid is expanded and pruned from
\* outside between the missions
NextRemove ==
    \/ \E c \in CallsRemove : ExecuteMission(c.color, c.mission, c.hour)
    \/ \E h \in ExpandTargets : ExpandGrid(h)
    \/ \E h \in RemoveTargets : RemoveHex(h)

SpecRemove == Init /\ [][NextRemove]_vars

\* Hex(a).distance_to(Hex(b))
DistanceTo(a, b) ==
    /\ last' = [op |-> "distance_to", success |-> FALSE, hex |-> a, other |-> b,
                distance |-> distance_to(a, b)]
    /\ UNCHANGED <<grid, mercs, current_hour, current_day, current_week, credits,
                   daily_production, phases, saved>>

\* the call changes nothing: one call for each pair of hexes shows all that
\* calls compute
NextDistance ==
    /\ last = NoCall
    /\ \E a \in Hexes, b \in Hexes : DistanceTo(a, b)

SpecDistance == Init /\ [][NextDistance]_vars

\* grid.get_cell(h).produce_resources(base_value); `calls` lists the calls of
\* it made so far
ProduceResources(h, base_value) ==
    LET calls == IF last.op = "produce_resources" THEN last.calls ELSE <<>>
    IN  /\ Len(calls) < MaxProduce
        /\ grid' = [grid EXCEPT !.cells[h] = produce_resources_of(@, h, base_value)]
        /\ last' = [op |-> "produce_resources", success |-> FALSE,
                    calls |-> Append(calls, [target |-> h, base_value |-> base_value])]
        /\ UNCHANGED <<mercs, current_hour, current_day, current_week, credits,
                       daily_production, phases, saved>>

\* a grid that has been expanded at RingSix, on the cells of which
\* produce_resources is called
InitProduce == InitWith({expand_grid(_initialize_grid, RingSix)}, {PoolSize})

NextProduce == \E h \in ProduceTargets, base_value \in BaseValues : ProduceResources(h, base_value)

SpecProduce == InitProduce /\ [][NextProduce]_vars

\* the hexes at which a draw of random.random() may pass while the turns of an
\* hour are followed mission by mission: one of orange's first proposals, and
\* the first proposals of green and of blue
TurnRegion == {OrangeChain[1], <<-5, 4>>, <<5, 0>>}

\* the missions evaluate_missions returns, each with the reward it was given
\* when it was built
rewarded_missions(g, color, hour) ==
    LET missions == evaluate_missions(g, color, hour)
    IN  [i \in DOMAIN missions |->
            [mission |-> missions[i],
             reward |-> _calculate_mission_reward(g, color, missions[i].type,
                                                  missions[i].target)]]

\* `last` while _process_faction_actions runs: faction_colors is the shuffled
\* list from the faction whose turn it is onwards, turns the factions whose
\* turn has begun, missions what is left of the list the faction evaluated,
\* start the grid the shuffle found, and executed the missions executed so far,
\* each with its reward and what it returned
InTurns == last.op = "_process_faction_actions"

\* step_hour as far as random.shuffle(faction_colors) in _process_faction_actions
BeginStepHour(faction_colors) ==
    LET hour == current_hour + 1
        daily == is_new_day(hour)
        weekly == is_new_week(hour)
        after_weekly == IF weekly THEN _process_weekly(credits) ELSE credits
    IN  /\ ~InTurns
        /\ current_hour < MaxHour
        /\ current_hour' = hour
        /\ current_day' = IF daily THEN current_day + 1 ELSE current_day
        /\ current_week' = IF weekly THEN current_week + 1 ELSE current_week
        /\ \E hourly \in _process_hourly(grid, mercs, hour) :
             LET produced == hourly.grid
                 deposits(f) == get_home_cells(produced, f) # <<>>
             IN  /\ credits' = [f \in FactionSet |->
                                  IF daily /\ deposits(f)
                                  THEN add_credits(after_weekly[f], Deposited(produced, f))
                                  ELSE after_weekly[f]]
                 /\ daily_production' = [f \in FactionSet |->
                                  IF daily /\ deposits(f)
                                  THEN Deposited(produced, f)
                                  ELSE daily_production[f]]
                 /\ grid' = IF daily THEN DepositAll(produced) ELSE produced
                 /\ mercs' = hourly.mercenaries
        /\ phases' = (IF weekly THEN <<"_process_weekly">> ELSE <<>>)
                        \o <<"process_hour", "_shrink_disconnected_territories",
                              "_produce_resources">>
                        \o (IF daily THEN <<"_process_daily">> ELSE <<>>)
        /\ last' = [op |-> "_process_faction_actions", success |-> FALSE,
                    faction_colors |-> faction_colors, turns |-> <<>>,
                    evaluated |-> FALSE, missions |-> <<>>,
                    start |-> grid', executed |-> <<>>]
        /\ UNCHANGED saved

\* missions = ai.evaluate_missions(self.current_hour), as the turn of the next
\* faction begins
EvaluateMissions ==
    /\ InTurns
    /\ last.faction_colors # <<>>
    /\ ~last.evaluated
    /\ LET color == Head(last.faction_colors)
       IN  last' = [last EXCEPT !.evaluated = TRUE,
                                !.turns = Append(@, color),
                                !.missions = rewarded_missions(grid, color, current_hour)]
    /\ UNCHANGED <<grid, mercs, current_hour, current_day, current_week, credits,
                   daily_production, phases, saved>>

\* the `for mission in missions` loop as far as the next mission whose draw
\* passes, the k-th of those left, and the call ai.execute_mission on it
TurnMission(k) ==
    /\ InTurns
    /\ last.evaluated
    /\ k \in DOMAIN last.missions
    /\ GateMayPass(last.missions[k].mission, TurnRegion)
    /\ LET color == Head(last.faction_colors)
           drawn == last.missions[k]
           r == execute_mission(grid, mercs, color, drawn.mission, current_hour)
       IN  /\ grid' = r.grid
           /\ mercs' = r.mercenaries
           /\ last' = [last EXCEPT !.success = r.success,
                                   !.missions = SubSeq(@, k + 1, Len(@)),
                                   !.executed = Append(@, [color |-> color,
                                                           mission |-> drawn.mission,
                                                           reward |-> drawn.reward,
                                                           success |-> r.success])]
    /\ UNCHANGED <<current_hour, current_day, current_week, credits, daily_production,
                   phases, saved>>

\* no draw passes for the missions left: the turn ends, and with the turn of
\* the last faction _process_faction_actions and step_hour return
EndTurn ==
    /\ InTurns
    /\ last.evaluated
    /\ last' = [last EXCEPT !.faction_colors = Tail(@), !.evaluated = FALSE,
                            !.missions = <<>>,
                            !.op = IF Tail(last.faction_colors) = <<>>
                                   THEN "step_hour" ELSE @]
    /\ phases' = IF Tail(last.faction_colors) = <<>>
                 THEN Append(phases, "_process_faction_actions") ELSE phases
    /\ UNCHANGED <<grid, mercs, current_hour, current_day, current_week, credits,
                   daily_production, saved>>

\* a Simulation stepped hour by hour, the turns of each hour followed mission by
\* mission
NextTurns ==
    \/ \E faction_colors \in Shuffles : BeginStepHour(faction_colors)
    \/ EvaluateMissions
    \/ InTurns /\ \E k \in DOMAIN last.missions : TurnMission(k)
    \/ EndTurn

SpecTurns == Init /\ [][NextTurns]_vars

\* the hour blue cuts orange's chain at, the first at which the chain's second
\* cell, last protected at hour 1, is open to a disrupt, and the hour of the
\* shrink that follows
CutHour == 1 + ProtectionDuration
ShrinkHour == CutHour + 1

\* the calls ai.execute_mission(mission, current_hour) made between the steps:
\* orange claims the fourth cell of its chain in the hour before blue cuts the
\* chain behind the second, so that the cells behind the cut are protected
\* when the next hour shrinks their body; the cell the cut left at the near
\* end of the body is then aimed at by both factions
CallsProtected ==
    {Call("orange", "claim", OrangeChain[1], 0),
     Call("orange", "claim", OrangeChain[2], 0),
     Call("orange", "claim", OrangeChain[3], 1),
     Call("blue", "claim", BlueChain[1], 1),
     Call("blue", "claim", BlueChain[2], 2),
     Call("blue", "claim", BlueChain[3], 2),
     Call("orange", "claim", OrangeChain[4], CutHour - 1),
     Call("blue", "disrupt", OrangeChain[2], CutHour),
     Call("blue", "claim", OrangeChain[3], ShrinkHour),
     Call("orange", "claim", OrangeChain[3], ShrinkHour),
     Call("blue", "disrupt", OrangeChain[3], ShrinkHour)}

\* a Simulation stepped through hours in which no proposed mission passes the
\* draw, with these calls made on its AIs
NextProtected ==
    \/ \E c \in CallsProtected :
          /\ current_hour = c.hour
          /\ ExecuteMission(c.color, c.mission, c.hour)
    \/ /\ current_hour < ShrinkHour
       /\ step_hour(Quiet)

SpecProtected == Init /\ [][NextProtected]_vars

\* MercenaryPool(initial_size=300) in Simulation.__init__ and Simulation.reset
FullPoolSize == 300

\* Simulation.reset between two calls of step_hour, with the pool at the size
\* the code gives it
ResetFullPool ==
    /\ ~InTurns
    /\ Becomes(reset_simulation(FullPoolSize))
    /\ last' = [NoCall EXCEPT !.op = "reset"]
    /\ UNCHANGED <<phases, saved>>

\* a fresh Simulation with its 300 mercenaries, only stepped and reset, the
\* turns of each hour followed mission by mission
NextFullPool ==
    \/ \E faction_colors \in Shuffles : BeginStepHour(faction_colors)
    \/ EvaluateMissions
    \/ InTurns /\ \E k \in DOMAIN last.missions : TurnMission(k)
    \/ EndTurn
    \/ ResetFullPool

SpecFullPool == InitWith({_initialize_grid}, {FullPoolSize}) /\ [][NextFullPool]_vars

\* a Simulation that is only stepped, and reset at any time, with the draws of
\* random.random() bounded by TurnRegion and OrangeRow
NextHours ==
    \/ /\ current_hour < MaxHour
       /\ step_hour(TurnRegion \cup Range(OrangeRow))
    \/ Reset

SpecHours == Init /\ [][NextHours]_vars

---------------------------------------------------------------------------
(* Properties *)

\* the terms the properties are stated in

\* a mercenary that can be given a mission at `hour`
FreeAt(m, hour) == ~m.assigned \/ m.mission_complete_hour <= 2 * hour

FreeCount(pool, hour) == Cardinality({i \in DOMAIN pool : FreeAt(pool[i], hour)})

Committed(hour) == [assigned |-> TRUE, mission_complete_hour |-> 2 * hour + 1]

Idle == [assigned |-> FALSE, mission_complete_hour |-> NoHour]

\* the cells of a faction that a chain of its own cells links to its home
Component(g, color) == find_connected_cells(g, get_home_cells(g, color))

InOrAdjacent(g, color, h) ==
    \/ h \in Component(g, color)
    \/ \E n \in Range(neighbors(h)) : n \in Component(g, color)

Present(g, h) == h \in DOMAIN g.cells

Owner(g, h) == g.cells[h].owner

\* the permanent cells of a fresh grid
PermanentHexes == {h \in initial_hexes : _initialize_grid.cells[h].is_permanent}

\* C1: whatever missions are executed and hours stepped, every permanent cell
\* is still in the grid, still permanent, and owned by its initial owner.
C1_PermanentCellsKeepOwner ==
    \A h \in PermanentHexes :
        /\ Present(grid, h)
        /\ grid.cells[h].is_permanent
        /\ Owner(grid, h) = Owner(_initialize_grid, h)

\* blue has cut the orange chain next to the permanent grey base and the
\* shrink phase has reset the cell behind the cut
C1_Witness ==
    /\ current_hour >= 1
    /\ Owner(grid, OrangeChain[2]) = "blue"
    /\ Present(grid, OrangeChain[3])
    /\ Owner(grid, OrangeChain[3]) = None
    /\ grid.cells[PermanentHex].is_permanent

\* C2: after a step_hour every unclaimed cell of the grid has a neighbour that
\* is owned.
C2_NoIsolatedUnclaimed ==
    last.op = "step_hour" =>
        \A h \in DOMAIN grid.cells :
            Owner(grid, h) = None =>
                \E n \in Range(get_neighbors(grid, h)) : Owner(grid, n) # None

ClaimSucceedsWhen(g, pool, c) ==
    /\ FreeCount(pool, c.hour) >= 1
    /\ Present(g, c.mission.target)
    /\ Owner(g, c.mission.target) = None
    /\ ~g.cells[c.mission.target].is_permanent
    /\ InOrAdjacent(g, c.color, c.mission.target)

\* C3: a claim returns True exactly when a mercenary is free at the hour of the
\* call and the target exists, is unowned, is not permanent and is in or next to
\* the executor's connected component; a successful claim makes the executor
\* the owner of the target.
C3_ClaimRule ==
    [][\A c \in CallsAI :
          c.mission.type = "claim" /\ ExecuteMission(c.color, c.mission, c.hour) =>
              /\ last'.success <=> ClaimSucceedsWhen(grid, mercs, c)
              /\ last'.success => Owner(grid', c.mission.target) = c.color]_vars

\* orange has just claimed the second hex of its chain, next to the first
C3_Witness ==
    /\ last = [op |-> "execute_mission", success |-> TRUE]
    /\ Owner(grid, OrangeChain[2]) = "orange"
    /\ grid.cells[OrangeChain[2]].protection_until = 2 + ProtectionDuration
    /\ \A i \in DOMAIN BlueChain : Owner(grid, BlueChain[i]) = None

TakeSucceedsWhen(g, pool, c) ==
    /\ FreeCount(pool, c.hour) >= 1
    /\ Present(g, c.mission.target)
    /\ Owner(g, c.mission.target) # None
    /\ Owner(g, c.mission.target) # c.color
    /\ ~g.cells[c.mission.target].is_home
    /\ ~g.cells[c.mission.target].is_permanent
    /\ \E n \in Range(neighbors(c.mission.target)) : n \in Component(g, c.color)
    /\ ~(c.hour < g.cells[c.mission.target].protection_until)

\* C4: a disrupt and a reclaim alike return True exactly when a mercenary is
\* free and the target exists, is owned by somebody else, is neither home nor
\* permanent, is next to the executor's connected component and is not
\* protected at the hour of the call; on success the executor owns the target.
C4_DisruptReclaimRule ==
    [][\A c \in CallsAI :
          c.mission.type \in {"disrupt", "reclaim"}
            /\ ExecuteMission(c.color, c.mission, c.hour) =>
              /\ last'.success <=> TakeSucceedsWhen(grid, mercs, c)
              /\ last'.success => Owner(grid', c.mission.target) = c.color]_vars

\* blue has taken orange's hex with the reclaim mission of hour LateHour + 1
C4_Witness ==
    /\ last = [op |-> "execute_mission", success |-> TRUE]
    /\ Owner(grid, OrangeChain[2]) = "blue"
    /\ grid.cells[OrangeChain[2]].protection_until = LateHour + 1 + ProtectionDuration

\* C5: a disrupt or reclaim never succeeds at an hour below the target's
\* protection_until; every successful mission at hour h leaves its target
\* protected until h + 3, so that the target cannot be taken at h, h + 1, h + 2;
\* and a target that is otherwise eligible is taken from the hour
\* protection_until on.
C5_ProtectionWindow ==
    [][\A c \in CallsAI :
          ExecuteMission(c.color, c.mission, c.hour) =>
              /\ last'.success =>
                    grid'.cells[c.mission.target].protection_until = c.hour + 3
              /\ c.mission.type \in {"disrupt", "reclaim"} /\ last'.success =>
                    c.hour >= grid.cells[c.mission.target].protection_until
              /\ c.mission.type \in {"disrupt", "reclaim"}
                   /\ FreeCount(mercs, c.hour) >= 1
                   /\ DisruptEligible(grid, c.color, c.mission, Component(grid, c.color))
                   /\ c.hour >= grid.cells[c.mission.target].protection_until
                   => last'.success]_vars

\* orange claimed its second hex at hour 2 and blue has taken it at hour 5,
\* the first hour it was no longer protected
C5_Witness ==
    /\ last = [op |-> "execute_mission", success |-> TRUE]
    /\ Owner(grid, OrangeChain[2]) = "blue"
    /\ grid.cells[OrangeChain[2]].protection_until = 2 + ProtectionDuration + 3
    /\ Owner(grid, BlueChain[3]) = "blue"

\* C6: a mission of any kind succeeds only if its target is in or next to the
\* executor's connected component in the grid the call finds, whatever the
\* grid was when the mission was made up.
C6_ReachabilityAtExecution ==
    [][\A c \in Calls :
          ExecuteMission(c.color, c.mission, c.hour) /\ last'.success =>
              InOrAdjacent(grid, c.color, c.mission.target)]_vars

\* orange owns the third hex of its chain, blue has cut the chain at the
\* second, and a mission has failed: the fourth hex, next to the third, is
\* still unowned
C6_Witness ==
    /\ last = [op |-> "execute_mission", success |-> FALSE]
    /\ Owner(grid, OrangeChain[2]) = "blue"
    /\ Owner(grid, OrangeChain[3]) = "orange"
    /\ Present(grid, OrangeChain[4])
    /\ Owner(grid, OrangeChain[4]) = None
    /\ \E i \in DOMAIN mercs : mercs[i] = Committed(OrangeHours[4])

\* C7: a call of execute_mission that returns False leaves the grid as it was.
C7_FailureLeavesGrid ==
    [][\A c \in CallsAI :
          ExecuteMission(c.color, c.mission, c.hour) /\ ~last'.success =>
              grid' = grid]_vars

\* a mission has failed after a mercenary was committed to it, and the grid is
\* the fresh one
C7_Witness ==
    /\ last = [op |-> "execute_mission", success |-> FALSE]
    /\ \E i \in DOMAIN mercs : mercs[i].assigned
    /\ grid = _initialize_grid

\* C8: a mission that fails at hour h although a mercenary was free commits
\* exactly one mercenary until h + 0.5, so that one mercenary fewer is free at
\* hour h; the next step_hour ends that commitment.
C8_FailedMissionKeepsMercenary ==
    [][/\ \A c \in FailingCalls(current_hour) :
             ExecuteMission(c.color, c.mission, c.hour) /\ FreeCount(mercs, c.hour) >= 1 =>
                 /\ ~last'.success
                 /\ \E i \in DOMAIN mercs :
                       /\ mercs'[i] = Committed(c.hour)
                       /\ FreeAt(mercs[i], c.hour)
                       /\ \A j \in DOMAIN mercs \ {i} : mercs'[j] = mercs[j]
                 /\ FreeCount(mercs', c.hour) = FreeCount(mercs, c.hour) - 1
       /\ current_hour' = current_hour + 1 =>
             \A i \in DOMAIN mercs :
                 mercs[i] = Committed(current_hour) => mercs'[i] # Committed(current_hour)]_vars

\* in an hour after the first, a mission has failed and a mercenary is
\* committed to it
C8_Witness ==
    /\ last = [op |-> "execute_mission", success |-> FALSE]
    /\ current_hour >= 1
    /\ \E i \in DOMAIN mercs : mercs[i] = Committed(current_hour)

\* C9: allocate(count, hour) returns True exactly when at least count
\* mercenaries are free at hour; it then commits exactly count of the free
\* ones until hour + 0.5 and the number of free ones drops by count; when it
\* returns False the pool is unchanged.
C9_AllocateAllOrNothing ==
    [][\A count \in 0..MaxCount, hour \in 0..MaxHour :
          Allocate(count, hour) =>
              LET changed == {i \in DOMAIN mercs : mercs'[i] # mercs[i]}
              IN  /\ last'.success <=> FreeCount(mercs, hour) >= count
                  /\ last'.success =>
                        /\ Cardinality(changed) = count
                        /\ \A i \in changed :
                              FreeAt(mercs[i], hour) /\ mercs'[i] = Committed(hour)
                        /\ FreeCount(mercs', hour) = FreeCount(mercs, hour) - count
                  /\ ~last'.success => mercs' = mercs]_vars

\* allocate has returned False although a mercenary was free
C9_Witness ==
    /\ last = [op |-> "allocate", success |-> FALSE]
    /\ \E i \in DOMAIN mercs : ~mercs[i].assigned
    /\ \E i \in DOMAIN mercs : mercs[i].assigned

\* C10: a mercenary allocated at hour h is available at the whole hours from
\* h + 1 on and at no earlier one; process_hour(t) releases exactly the
\* committed mercenaries whose completion time is at most t; and after a
\* step_hour no mercenary is still committed to a mission that completed by
\* the new hour.
C10_MercenaryTiming ==
    [][/\ \A count \in 0..MaxCount, hour \in 0..MaxHour :
             Allocate(count, hour) =>
                 \A i \in DOMAIN mercs :
                     mercs'[i] # mercs[i] =>
                         \A t \in 0..(MaxHour + 1) :
                             is_available(mercs'[i], t) <=> t >= hour + 1
       /\ \A t \in 0..MaxHour :
             ProcessHour(t) =>
                 \A i \in DOMAIN mercs :
                     mercs'[i] = IF mercs[i].assigned /\ mercs[i].mission_complete_hour <= 2 * t
                                 THEN Idle
                                 ELSE mercs[i]
       /\ current_hour' = current_hour + 1 =>
             \A i \in DOMAIN mercs :
                 mercs[i].assigned /\ mercs[i].mission_complete_hour <= 2 * current_hour' =>
                     mercs'[i] \in {Idle, Committed(current_hour')}]_vars

\* a step_hour has released a mercenary and orange's AI has claimed the first
\* hex of its chain in the new hour
C10_Witness ==
    /\ last.op = "step_hour"
    /\ Owner(grid, OrangeChain[1]) = "orange"
    /\ grid.cells[OrangeChain[1]].protection_until = current_hour + ProtectionDuration
    /\ \E i \in DOMAIN mercs : mercs[i] = Committed(current_hour)

\* the missions the AI of a faction proposes in the current state
Proposed(color) == Range(evaluate_missions(grid, color, current_hour))

\* the cells of a faction that no chain of its cells links to its home
Disconnected(g, color) ==
    {h \in Range(get_faction_cells(g, color)) :
        h \notin Component(g, color) /\ ~g.cells[h].is_home}

C12_ReclaimTargetNextToComponent ==
    \A color \in FactionSet :
        /\ \A m \in Proposed(color) :
               m.type = "reclaim" =>
                   /\ m.target \notin Component(grid, color)
                   /\ \E n \in Range(neighbors(m.target)) : n \in Component(grid, color)
        /\ (\E m \in Proposed(color) : m.type = "reclaim") =>
               \E d \in Disconnected(grid, color) :
                   _find_shortest_reconnection_path(grid, color, d, Component(grid, color)) # <<>>


\* C13: a step_hour runs its phases in this order: the release of the
\* mercenaries whose missions are complete, the shrink of disconnected
\* territory, the production, on a day boundary the daily deposit, on a week
\* boundary the weekly hook, and the faction turns.
C13_PhaseOrder ==
    last.op = "step_hour" =>
        phases = <<"process_hour", "_shrink_disconnected_territories", "_produce_resources">>
                    \o (IF current_hour % HoursPerDay = 0 THEN <<"_process_daily">> ELSE <<>>)
                    \o (IF current_hour % HoursPerWeek = 0 THEN <<"_process_weekly">> ELSE <<>>)
                    \o <<"_process_faction_actions">>


\* the disconnected bodies of a faction: the maximal groups of adjacent cells
\* among its cells outside its connected component
Bodies(g, color) == _find_territory_bodies(g, Disconnected(g, color))

\* the number of cells of `body` next to c
InBody(body, c) == Cardinality({n \in Range(neighbors(c)) : n \in body})

Unclaimed(cell) == cell.owner = None /\ cell.resources = 0 /\ cell.protection_until = 0

\* C14: in an hour whose faction turns execute nothing, every disconnected
\* body loses exactly one cell to the shrink phase; that cell is left
\* unclaimed with resources 0 and protection 0 and no cell of the body has
\* fewer neighbours in the body; the cells of the connected components and
\* the home cells keep their owner.
C14_ShrinkOnePerBody ==
    [][current_hour' = current_hour + 1 =>
          \A color \in FactionSet :
              /\ \A body \in Bodies(grid, color) :
                    \E c \in body :
                        /\ Present(grid', c)
                        /\ Unclaimed(grid'.cells[c])
                        /\ \A d \in body : InBody(body, c) <= InBody(body, d)
                        /\ \A d \in body \ {c} :
                              Present(grid', d) /\ Owner(grid', d) = color
              /\ \A h \in DOMAIN grid.cells :
                    Owner(grid, h) = color
                      /\ (h \in Component(grid, color) \/ grid.cells[h].is_home) =>
                        Present(grid', h) /\ Owner(grid', h) = color]_vars

\* the week's last step_hour has found orange's three cells behind the cut
\* and reset the first of them; the middle one and the tip are still orange's
C14_Witness ==
    /\ last.op = "step_hour"
    /\ current_hour = HoursPerWeek
    /\ Owner(grid, OrangeChain[2]) = "blue"
    /\ Unclaimed(grid.cells[OrangeChain[3]])
    /\ Disconnected(grid, "orange") = {OrangeChain[4], OrangeTip}


\* what the cells `hs` hold once each has produced for one more hour
RECURSIVE HeldAfterProduction(_, _)
HeldAfterProduction(g, hs) ==
    IF hs = {} THEN 0
    ELSE LET h == CHOOSE x \in hs : TRUE
         IN  g.cells[h].resources + RingPercent(distance_from_center(h))
                + HeldAfterProduction(g, hs \ {h})

\* C15: a step_hour that ends on an hour divisible by 24 adds to each faction's
\* credits exactly what the cells of its connected component hold after the
\* hour's production, leaves those cells with resources 0 and sets
\* daily_production to that sum; the faction's cells outside the component
\* keep their resources. A step_hour that ends on another hour changes
\* neither credits nor daily_production and empties no cell.
C15_DailyDeposit ==
    [][current_hour' = current_hour + 1 =>
          \A color \in FactionSet :
              LET inside == Component(grid, color)
                  due == HeldAfterProduction(grid, inside)
              IN  IF current_hour' % HoursPerDay = 0
                  THEN /\ credits'[color] = credits[color] + due
                       /\ daily_production'[color] = due
                       /\ \A h \in inside : grid'.cells[h].resources = 0
                       /\ \A h \in DOMAIN grid'.cells :
                             Owner(grid', h) = color /\ h \notin inside =>
                                 grid'.cells[h].resources = grid.cells[h].resources
                  ELSE /\ credits'[color] = credits[color]
                       /\ daily_production'[color] = daily_production[color]
                       /\ \A h \in inside : grid'.cells[h].resources > 0]_vars

\* the seventh deposit has been made while orange held cells behind the cut:
\* one of them still holds what it produced, and orange's credits are more
\* than the last day's deposit
C15_Witness ==
    /\ last.op = "step_hour"
    /\ current_hour = HoursPerWeek
    /\ \E h \in Disconnected(grid, "orange") : grid.cells[h].resources > 0
    /\ daily_production["orange"] > 0
    /\ credits["orange"] > daily_production["orange"]
    /\ credits["green"] = 7 * daily_production["green"]


C17_Counters ==
    /\ current_hour \in 0..WeekHours
    /\ current_day = current_hour \div 24
    /\ current_week = current_hour \div 168
    /\ last.op = "step_hour" => current_hour >= 1
    /\ DOMAIN mercs = 1..PoolSize

\* 168 calls of step_hour have been made
C17_Witness ==
    /\ last.op = "step_hour"
    /\ current_hour = 168
    /\ current_day = 7
    /\ current_week = 1
    /\ \A i \in DOMAIN mercs : mercs[i] = Idle


\* C18: reset() restores the values of a freshly constructed Simulation: hour,
\* day and week 0, a pool of idle mercenaries of the initial size, the initial
\* grid with no protection, and credits 0 and daily_production 0 for every
\* faction.
C18_ResetRestoresInit ==
    last.op = "reset" =>
        /\ CurrentSim = __init__(PoolSize)
        /\ \A h \in DOMAIN grid.cells : grid.cells[h].protection_until = 0
        /\ \A f \in FactionSet : credits[f] = 0 /\ daily_production[f] = 0

\* what the claim compares of two simulations: get_state, the cells with
\* their saved fields, and the roster
Observed(sim) ==
    [state |-> get_state(sim),
     cells |-> [h \in DOMAIN sim.grid.cells |->
                  [owner |-> sim.grid.cells[h].owner,
                   is_home |-> sim.grid.cells[h].is_home,
                   is_permanent |-> sim.grid.cells[h].is_permanent,
                   resources |-> sim.grid.cells[h].resources,
                   protection_until |-> sim.grid.cells[h].protection_until]],
     roster |-> [i \in DOMAIN sim.mercenaries |->
                   [assigned |-> sim.mercenaries[i].assigned,
                    mission_complete_hour |-> sim.mercenaries[i].mission_complete_hour]]]

\* C19: in every state, loading what save_state returns into a new Simulation
\* succeeds and gives a simulation with the same get_state, the same cell
\* coordinates, for every cell the same owner, is_home, is_permanent,
\* resources and protection_until, and the same roster of mercenaries.
C19_SaveLoadRoundTrip ==
    LET loaded == load_state(__init__(PoolSize), save_state(CurrentSim), PoolSize)
    IN  /\ loaded.ok
        /\ Observed(loaded.sim) = Observed(CurrentSim)

\* the record saved in hour 1, when orange's first hex was protected, cells
\* held resources and a mercenary was out, has been loaded
C19_Witness ==
    /\ last = [op |-> "load_state", success |-> TRUE]
    /\ current_hour = 1
    /\ Owner(grid, OrangeChain[1]) = "orange"
    /\ grid.cells[OrangeChain[1]].protection_until = 1 + ProtectionDuration
    /\ grid.cells[OrangeChain[1]].native_sector = None
    /\ \E h \in DOMAIN grid.cells : grid.cells[h].resources > 0
    /\ \E i \in DOMAIN mercs : mercs[i] = Committed(1)

\* what load_state makes of the record `state` in an older shape
LoadedOlder(state, shape, size) == load_state(CurrentSim, Older(state, shape, size), PoolSize)

AssignedCount(pool) == Cardinality({i \in DOMAIN pool : pool[i].assigned})

\* the defaults that both the claim and its amendment state
OlderFieldsDefaulted(state) ==
    /\ LET r == LoadedOlder(state, "no_production", PoolSize)
       IN  r.ok /\ \A f \in FactionSet : r.sim.daily_production[f] = 0
    /\ LET r == LoadedOlder(state, "no_permanent", PoolSize)
       IN  /\ r.ok
           /\ DOMAIN r.sim.grid.cells = {parse_key(state.cells[i].key) : i \in DOMAIN state.cells}
           /\ \A h \in DOMAIN r.sim.grid.cells : ~r.sim.grid.cells[h].is_permanent
    /\ state.cells # <<>> =>
          LET r == LoadedOlder(state, "no_owner", PoolSize)
              damaged == parse_key(state.cells[Len(state.cells)].key)
          IN  /\ ~r.ok
              /\ damaged \notin DOMAIN r.sim.grid.cells
              /\ Len(r.sim.grid.order) = Len(state.cells) - 1

ResizedTo(pool, size) ==
    IF size >= Len(pool) \/ AssignedCount(pool) <= size THEN size
    ELSE AssignedCount(pool)

Counts == _get_territory_counts(grid)
LeastCount == CHOOSE n \in 0..MaxTerritories :
                 (\E f \in FactionSet : Counts[f] = n) /\ (\A f \in FactionSet : Counts[f] >= n)
MostCount == CHOOSE n \in 0..MaxTerritories :
                 (\E f \in FactionSet : Counts[f] = n) /\ (\A f \in FactionSet : Counts[f] <= n)
FirstWith(n) == Factions[CHOOSE i \in DOMAIN Factions :
                    Counts[Factions[i]] = n /\ \A j \in 1..(i - 1) : Counts[Factions[j]] # n]

\* base * min(3.0, 1 + (most / max(least, 1) - 1) * 0.5), truncated
Raised(base) ==
    LET d == Max(LeastCount, 1)
    IN  IF 2 * d + (MostCount - d) >= 6 * d THEN 3 * base
        ELSE (base * (2 * d + (MostCount - d))) \div (2 * d)

\* base * max(0.3, least / max(most, 1)), truncated
Lowered(base) ==
    LET d == Max(MostCount, 1)
    IN  IF 10 * LeastCount <= 3 * d THEN (base * 3) \div 10
        ELSE (base * LeastCount) \div d

\* the reward of the documented formula for the call `c`; `guarded` tells
\* whether a disrupt against the faction with most territories is raised only
\* when the least count is positive
Documented(c, guarded) ==
    LET base == CASE c.type = "claim" -> 1000 [] c.type = "disrupt" -> 5000
                  [] c.type = "reclaim" -> 3000
        owner == IF Present(grid, c.target) THEN Owner(grid, c.target) ELSE None
        fewest == FirstWith(LeastCount)
        leader == FirstWith(MostCount)
    IN  IF c.type = "disrupt"
        THEN IF owner = fewest THEN Lowered(base)
             ELSE IF owner = leader
             THEN IF guarded /\ LeastCount = 0 THEN base ELSE Raised(base)
             ELSE base
        ELSE IF c.color = fewest
             THEN IF LeastCount = 0 THEN 3 * base ELSE Raised(base)
             ELSE IF c.color = leader THEN Lowered(base)
             ELSE base

C22_RewardFloor ==
    /\ last.op = "_calculate_mission_reward" => last.reward \in Nat /\ last.reward >= 100
    /\ \A target \in RewardTargets :
          _calculate_mission_reward(grid, FirstWith(LeastCount), "claim", target)
              >= _calculate_mission_reward(grid, FirstWith(MostCount), "claim", target)

\* the leader has claimed while another faction held nothing, for the lowest
\* reward of a claim
C22_Witness ==
    /\ last.op = "_calculate_mission_reward"
    /\ last.type = "claim"
    /\ LeastCount = 0 /\ MostCount = MaxTerritories
    /\ Counts[last.color] = MostCount
    /\ last.reward = 300


\* C23: after any call of adjust_size, whatever the pool and the delta, the
\* size of the pool lies within min_size..max_size.
C23_AdjustedWithinBounds ==
    last.op = "adjust_size" => min_size <= Len(mercs) /\ Len(mercs) <= max_size


\* the assigned mercenaries of a pool, in their order
AssignedOf(pool) == SelectSeq(pool, LAMBDA m : m.assigned)

\* C24: adjust_size and the size setter keep every assigned mercenary, with
\* its completion hour; shrinking removes unassigned mercenaries only and
\* growing appends fresh unassigned ones.
C24_ResizeKeepsAssigned ==
    [][(\E delta \in -MaxDelta..MaxDelta : AdjustSize(delta))
         \/ (\E value \in 0..(max_size + 2) : SetSize(value)) =>
            /\ AssignedOf(mercs') = AssignedOf(mercs)
            /\ \A i \in DOMAIN mercs' : ~mercs'[i].assigned => mercs'[i] = Idle
            /\ Len(mercs') >= Len(mercs) => SubSeq(mercs', 1, Len(mercs)) = mercs]_vars

\* a pool with an assigned mercenary among unassigned ones has been shrunk
C24_Witness ==
    /\ last.op = "adjust_size" /\ last.delta < 0
    /\ last.size > min_size
    /\ Len(mercs) = min_size
    /\ mercs[1].assigned
    /\ ~mercs[min_size].assigned


\* the result of a search from the seeds start_cells is the set of cells
\* reachable from them through cells of their owner
ExactlyReachable(g, start_cells, result) ==
    IF start_cells = <<>> THEN result = {}
    ELSE LET owner == g.cells[start_cells[1]].owner
         IN  /\ Range(start_cells) \subseteq result
             /\ \A h \in result : Present(g, h) /\ Owner(g, h) = owner
             /\ \A h \in result : \A n \in Range(get_neighbors(g, h)) :
                    Owner(g, n) = owner => n \in result
             /\ FloodBody(g, result, Range(start_cells), Range(start_cells)) = result

\* a cell of the component of `color` whose loss cuts other cells off
Bridge(g, color, c) ==
    \E body \in _find_territory_bodies(g, Component(g, color) \ {c}) :
        body \cap Range(get_home_cells(g, color)) = {}

\* C25: find_connected_cells returns exactly the cells reachable from the
\* seeds through cells of the seeds' owner, the seeds included, whatever the
\* order the seeds are taken in, and the empty set for no seeds; when a cell of
\* a component changes owner, the component loses that cell only if the cell
\* is no bridge, and more than that cell if it is one.
C25_FindConnected ==
    /\ [](\A start_cells \in SeedLists(grid) :
            /\ ExactlyReachable(grid, start_cells, find_connected_cells(grid, start_cells))
            /\ \A frontier \in SeedOrders(start_cells) :
                  find_connected_cells_in(grid, start_cells, frontier)
                      = find_connected_cells(grid, start_cells))
    /\ [][\A color \in FactionSet : \A c \in Component(grid, color) :
            Owner(grid', c) # color =>
                /\ Component(grid', color) \subseteq Component(grid, color) \ {c}
                /\ Bridge(grid, color, c) <=>
                      Component(grid', color) # Component(grid, color) \ {c}]_vars

\* blue has cut the orange chain at its second hex: the two hexes beyond it
\* are orange's still, but out of orange's component
C25_Witness ==
    /\ Owner(grid, OrangeChain[2]) = "blue"
    /\ Owner(grid, OrangeChain[3]) = "orange" /\ Owner(grid, OrangeChain[4]) = "orange"
    /\ OrangeChain[1] \in Component(grid, "orange")
    /\ OrangeChain[3] \notin Component(grid, "orange")
    /\ find_connected_cells(grid, <<OrangeChain[3]>>) = {OrangeChain[3], OrangeChain[4]}


\* the hex has a cell, is no initial hex, is unclaimed and has no neighbour
\* with an owner
Removable(g, h) ==
    /\ Present(g, h)
    /\ h \notin initial_hexes
    /\ Owner(g, h) = None
    /\ \A n \in Range(neighbors(h)) : Present(g, n) => Owner(g, n) = None

\* C26: can_remove_hex is true exactly of a hex that has a cell, is no initial
\* hex, is unclaimed and has no neighbour with an owner; remove_hex deletes the
\* cell of such a hex and nothing else, and leaves the grid unchanged for any
\* other hex; so that a cell that disappears is never the cell of an initial
\* hex, an owned cell or a cell next to an owned one.
C26_RemoveOnlyOrphans ==
    [][/\ \A h \in RemoveTargets :
            /\ can_remove_hex(grid, h) <=> Removable(grid, h)
            /\ RemoveHex(h) =>
                  IF Removable(grid, h)
                  THEN /\ DOMAIN grid'.cells = DOMAIN grid.cells \ {h}
                       /\ \A x \in DOMAIN grid'.cells : grid'.cells[x] = grid.cells[x]
                       /\ Range(grid'.order) = DOMAIN grid'.cells
                  ELSE grid' = grid
       /\ \A x \in DOMAIN grid.cells \ DOMAIN grid'.cells : Removable(grid, x)]_vars

\* the hex beside orange's chain could not be removed while orange held the
\* first hex of the chain; the far hex, added by expand_grid, has been removed
C26_Witness ==
    /\ last = [op |-> "remove_hex", success |-> TRUE, target |-> MissingHex]
    /\ ~Present(grid, MissingHex)
    /\ Present(grid, OrangeFringe)
    /\ Owner(grid, OrangeChain[1]) = "orange"
    /\ ~can_remove_hex(grid, OrangeFringe)


\* C27: for hexes a, b, c of coordinates in -MaxCoord..MaxCoord, distance_to
\* is a non-negative integer, symmetric, 0 from a hex to itself, and satisfies
\* the triangle inequality; distance_from_center is the distance to <<0, 0>>;
\* and the six neighbours of a hex are at distance 1 from it.
C27_DistanceIsAMetric ==
    last.op = "distance_to" =>
        LET a == last.hex
            b == last.other
        IN  /\ last.distance \in Nat
            /\ last.distance = distance_to(b, a)
            /\ a = b => last.distance = 0
            /\ \A c \in Hexes : distance_to(a, c) <= last.distance + distance_to(b, c)
            /\ b = <<0, 0>> => distance_from_center(a) = last.distance
            /\ b \in Range(neighbors(a)) => last.distance = 1
            /\ \A i \in 1..6 : distance_to(a, neighbors(a)[i]) = 1
            /\ Cardinality(Range(neighbors(a))) = 6

\* the distance between two opposite corners of the range of hexes
C27_Witness ==
    /\ last.op = "distance_to"
    /\ last.hex = <<-MaxCoord, MaxCoord>>
    /\ last.other = <<MaxCoord, -MaxCoord>>
    /\ last.distance = 2 * MaxCoord


\* ten times the multiplier of a ring: 1.0, 1.1, 1.2, 1.3, and 1.4 from ring 4
RingTenths(ring) == IF ring >= 4 THEN 14 ELSE 10 + ring

\* ten times what the calls made on hex h add up to
RECURSIVE TenthsProduced(_, _)
TenthsProduced(calls, h) ==
    IF calls = <<>> THEN 0
    ELSE TenthsProduced(Tail(calls), h)
            + (IF Head(calls).target = h
               THEN Head(calls).base_value * RingTenths(distance_from_center(h))
               ELSE 0)

\* C28: each call of produce_resources adds base_value times the multiplier
\* of the cell's ring, 1.0, 1.1, 1.2, 1.3 for the rings 0 to 3 and 1.4 for
\* every ring from 4, and nothing is reset between the calls: a cell holds the
\* sum of what the calls made on it have added (390 for a cell of ring 3 after
\* three calls with base_value 100).
C28_ProductionByRing ==
    LET calls == IF last.op = "produce_resources" THEN last.calls ELSE <<>>
    IN  /\ \A h \in DOMAIN grid.cells :
              10 * grid.cells[h].resources = TenthsProduced(calls, h)
        /\ calls = [i \in 1..3 |-> [target |-> <<0, 3>>, base_value |-> 100]] =>
              grid.cells[<<0, 3>>].resources = 390

\* three calls with base_value 100 on the cell of ring 3
C28_Witness ==
    /\ last.op = "produce_resources"
    /\ last.calls = [i \in 1..3 |-> [target |-> <<0, 3>>, base_value |-> 100]]
    /\ grid.cells[<<0, 3>>].resources = 390


\* C29: a claim, disrupt or reclaim that succeeds at hour h sets
\* protection_until to h + 3 on the target and on every neighbour of it that
\* the executing faction owns, whatever it was before, and changes it on no
\* other cell; the cells the grid grows by are unprotected.
C29_ProtectionOfSuccess ==
    [][\A c \in CallsAI :
          ExecuteMission(c.color, c.mission, c.hour) /\ last'.success =>
              /\ \A x \in DOMAIN grid.cells :
                    /\ Present(grid', x)
                    /\ grid'.cells[x].protection_until =
                          IF \/ x = c.mission.target
                             \/ /\ x \in Range(neighbors(c.mission.target))
                                /\ Owner(grid, x) = c.color
                          THEN c.hour + 3
                          ELSE grid.cells[x].protection_until
              /\ \A x \in DOMAIN grid'.cells \ DOMAIN grid.cells :
                    grid'.cells[x].protection_until = 0]_vars

\* blue has reclaimed the second hex of the orange chain at hour LateHour + 1:
\* the hex and the end of the blue chain beside it, protected until hour 4
\* since blue claimed it, are protected until LateHour + 4, and orange's first
\* hex is protected as it was
C29_Witness ==
    /\ last = [op |-> "execute_mission", success |-> TRUE]
    /\ Owner(grid, OrangeChain[2]) = "blue"
    /\ grid.cells[OrangeChain[2]].protection_until = LateHour + 4
    /\ grid.cells[BlueChain[3]].protection_until = LateHour + 4
    /\ grid.cells[BlueChain[2]].protection_until = 4
    /\ grid.cells[OrangeChain[1]].protection_until = 5

\* the missions of the hour that acquired their target, in the order executed
Acquisitions == SelectSeq(last.executed, LAMBDA e : e.success)

\* the turns of the hour are those of distinct factions, in the shuffled order,
\* and of all three once the hour is over
TurnsInAPermutation ==
    /\ \A i, j \in DOMAIN last.turns : last.turns[i] = last.turns[j] => i = j
    /\ Len(last.turns) = Len(Factions) - Len(last.faction_colors)
                            + (IF last.evaluated THEN 1 ELSE 0)
    /\ ~InTurns => Range(last.turns) = FactionSet
    /\ \A i \in DOMAIN last.executed :
          \E t \in DOMAIN last.turns :
             /\ last.executed[i].color = last.turns[t]
             /\ \A j \in DOMAIN last.executed :
                   j < i => \E u \in 1..t : last.executed[j].color = last.turns[u]

\* the list a faction holds before its first mission is the one evaluated on
\* the grid as the earlier turns left it
EvaluatedOnCurrentGrid ==
    (InTurns /\ last.evaluated
        /\ (last.executed = <<>>
              \/ last.executed[Len(last.executed)].color # Head(last.faction_colors)))
    => last.missions = rewarded_missions(grid, Head(last.faction_colors), current_hour)

\* whatever mission were executed on a cell acquired in the hour, by any faction
\* before the hour ends, it would fail
LaterMissionsFail ==
    \A i \in DOMAIN Acquisitions, color \in FactionSet, mission_type \in MissionTypes :
        ~execute_mission(grid, MercenaryPool(1), color,
                         Mission(mission_type, Acquisitions[i].mission.target, color),
                         current_hour).success

\* C30: within one hour the turns are those of the three factions in some
\* permutation, one after the other; each faction evaluates its missions on the
\* grid as the earlier turns left it; and whichever missions are executed, no
\* cell is acquired twice in the hour: a cell acquired in the hour is owned and
\* protected, so that any later mission of the hour on it fails.
C30_TurnsAreSequential ==
    last.op \in {"_process_faction_actions", "step_hour"} =>
        /\ TurnsInAPermutation
        /\ EvaluatedOnCurrentGrid
        /\ \A i, j \in DOMAIN Acquisitions :
              Acquisitions[i].mission.target = Acquisitions[j].mission.target => i = j
        /\ \A i \in DOMAIN Acquisitions :
              LET cell == grid.cells[Acquisitions[i].mission.target]
              IN  /\ cell.owner = Acquisitions[i].color
                  /\ is_protected(cell, current_hour)
        /\ LaterMissionsFail

\* an hour is over in which two factions acquired a cell each, the later one
\* with a reward that the grid the hour began with would not have given
C30_Witness ==
    /\ last.op = "step_hour"
    /\ Len(Acquisitions) >= 2
    /\ Acquisitions[1].color # Acquisitions[2].color
    /\ Acquisitions[2].reward #
          _calculate_mission_reward(last.start, Acquisitions[2].color,
                                    Acquisitions[2].mission.type,
                                    Acquisitions[2].mission.target)

\* the hours evaluate_missions is asked at: the hour the chains begin at, and
\* the hours at which the cells of the chains are no longer protected
EvaluationHours == {0, LateHour, LateHour + 1}

\* the types of the missions of a list, in the order of the list
Types(missions) == [i \in DOMAIN missions |-> missions[i].type]

\* the number of missions of a type in a list
CountOf(missions, mission_type) ==
    Cardinality({i \in DOMAIN missions : missions[i].type = mission_type})

ClaimCandidates(g, color) ==
    LET beside == UNION {Range(neighbors(n)) : n \in Component(g, color)}
    IN  {h \in beside \cap DOMAIN g.cells : g.cells[h].owner = None}

\* the targets of the claim missions of a list, in the order of the list
ClaimTargets(missions) ==
    LET isclaim(m) == m.type = "claim"
        claims == SelectSeq(missions, isclaim)
    IN  [i \in DOMAIN claims |-> claims[i].target]

\* C32: the claim missions evaluate_missions proposes target distinct unclaimed
\* cells, each next to a cell of the faction's connected component; they are
\* five of the candidates, or all of them when there are fewer, and no candidate
\* left out is closer to the centre than a proposed one.
C32_ClaimsClosestCandidates ==
    \A color \in FactionSet, hour \in EvaluationHours :
        LET targets == ClaimTargets(evaluate_missions(grid, color, hour))
            candidates == ClaimCandidates(grid, color)
        IN  /\ \A i, j \in DOMAIN targets : targets[i] = targets[j] => i = j
            /\ Range(targets) \subseteq candidates
            /\ Len(targets) = Min(5, Cardinality(candidates))
            /\ \A p \in Range(targets), c \in candidates \ Range(targets) :
                  distance_from_center(p) <= distance_from_center(c)

\* orange has claimed the first hex of its chain and the row; its AI proposes
\* the next hex of the chain, which only the first hex of the chain touches, and
\* leaves out the hexes of a farther ring that touch the row
C32_Witness ==
    LET targets == ClaimTargets(evaluate_missions(grid, "orange", LateHour))
        candidates == ClaimCandidates(grid, "orange")
    IN  /\ Len(targets) = 5
        /\ OrangeChain[2] \in Range(targets)
        /\ \A n \in Range(neighbors(OrangeChain[2])) :
              n \in Component(grid, "orange") => n = OrangeChain[1]
        /\ \E c \in candidates \ Range(targets) :
              /\ \E i \in DOMAIN OrangeRow : c \in Range(neighbors(OrangeRow[i]))
              /\ distance_from_center(OrangeChain[2]) < distance_from_center(c)

\* the targets of the disrupt missions of a list
DisruptTargets(missions) ==
    {missions[i].target : i \in {j \in DOMAIN missions : missions[j].type = "disrupt"}}

\* the neighbours of a cell that have its owner and are not home cells
SameOwnerNeighbours(g, h) ==
    {n \in Range(neighbors(h)) \cap DOMAIN g.cells :
        g.cells[n].owner = g.cells[h].owner /\ ~g.cells[n].is_home}

\* C33: every disrupt mission evaluate_missions proposes targets a cell owned by
\* one of the two other player factions, that is not a home cell, is not
\* protected at the hour of the evaluation, has a neighbour in the proposer's
\* connected component, and has at least 2 neighbours of its own owner that
\* are not home cells.
C33_DisruptTargets ==
    \A color \in FactionSet, hour \in EvaluationHours :
        \A h \in DisruptTargets(evaluate_missions(grid, color, hour)) :
            /\ Present(grid, h)
            /\ Owner(grid, h) \in FactionSet \ {color}
            /\ ~grid.cells[h].is_home
            /\ ~(hour < grid.cells[h].protection_until)
            /\ \E n \in Range(neighbors(h)) : n \in Component(grid, color)
            /\ Cardinality(SameOwnerNeighbours(grid, h)) >= 2

\* blue's chain touches the second and the third hex of orange's chain, each
\* between two hexes of the chain; at LateHour the third is still protected
\* and blue's AI proposes a disrupt only for the second, an hour later for
\* both, and never for the end of the chain, which has one such neighbour
C33_Witness ==
    /\ DisruptTargets(evaluate_missions(grid, "blue", LateHour)) = {OrangeChain[2]}
    /\ DisruptTargets(evaluate_missions(grid, "blue", LateHour + 1))
          = {OrangeChain[2], OrangeChain[3]}
    /\ Owner(grid, OrangeChain[4]) = "orange"
    /\ Cardinality(SameOwnerNeighbours(grid, OrangeChain[4])) = 1

\* the sector of a coordinate: that of the smallest of |q|, |r| and |s|, q
\* before s before r among equal ones
SectorOf(h) ==
    LET q == Abs(h[1])
        r == Abs(h[2])
        s == Abs(h[1] + h[2])
        least == Min(q, Min(r, s))
    IN  IF q = least THEN "orange" ELSE IF s = least THEN "green" ELSE "blue"

\* C34: in every reachable state, after initialization, grid expansion,
\* ownership changes and load_state, every cell of the grid has a
\* native_sector among orange, green and blue, the sector of its coordinates.
C34_NativeSectorOfCoordinates ==
    \A h \in DOMAIN grid.cells :
        /\ grid.cells[h].native_sector \in FactionSet
        /\ grid.cells[h].native_sector = SectorOf(h)

\* all six neighbouring coordinates of every owned cell have a cell
OwnedCellsSurrounded(g) ==
    \A h \in DOMAIN g.cells :
        g.cells[h].owner # None => \A n \in Range(neighbors(h)) : Present(g, n)

\* the cells a step adds: unclaimed, neither home nor permanent, empty, each
\* at a coordinate next to a cell claimed in the step; and no call of
\* execute_mission changes more of an existing cell than its owner and its
\* protection
GrowsByClaimsOnly ==
    /\ \A h \in DOMAIN grid'.cells \ DOMAIN grid.cells :
          /\ grid'.cells[h] = HexCell(None, FALSE, FALSE, _determine_native_sector(h))
          /\ \E t \in Range(neighbors(h)) \cap DOMAIN grid.cells :
                grid.cells[t].owner = None /\ grid'.cells[t].owner \in FactionSet
    /\ last'.op = "execute_mission" =>
          \A h \in DOMAIN grid.cells :
              /\ Present(grid', h)
              /\ grid'.cells[h] = [grid.cells[h] EXCEPT
                                      !.owner = grid'.cells[h].owner,
                                      !.protection_until = grid'.cells[h].protection_until]

\* the cells a step removes were unclaimed and have no owned neighbour left
PrunesOrphansOnly ==
    \A h \in DOMAIN grid.cells \ DOMAIN grid'.cells :
        /\ grid.cells[h].owner = None
        /\ \A n \in Range(neighbors(h)) \cap DOMAIN grid'.cells : grid'.cells[n].owner = None

\* C35: in every state reached from a fresh simulation by step_hour and
\* execute_mission, all six neighbouring coordinates of every owned cell are in
\* the grid: a successful claim adds each missing neighbour as an unclaimed
\* cell, neither home nor permanent, and overwrites no cell, and pruning
\* removes no cell that has an owned neighbour.
C35_OwnedCellsSurrounded ==
    /\ [] OwnedCellsSurrounded(grid)
    /\ [][GrowsByClaimsOnly /\ PrunesOrphansOnly]_vars

\* orange's chain has been cut and the shrink has given up a hex of it that
\* the next hex of the chain, still orange, was claimed from; a hex beside the
\* one given up has been pruned, and the one still held keeps its neighbours
C35_Witness ==
    LET chain == OrangeChain \o <<OrangeTip>>
    IN  \E i \in 3..4 :
            /\ Present(grid, chain[i + 1]) /\ Owner(grid, chain[i + 1]) = "orange"
            /\ Owner(grid, chain[i]) = None
            /\ \E n \in Range(neighbors(chain[i])) : ~Present(grid, n)

\* the factions other than `color` hold their home cells only
OthersAtHome(g, color) ==
    \A h \in DOMAIN g.cells :
        g.cells[h].owner \in FactionSet \ {color} => g.cells[h].is_home

\* the cell a successful mission took belongs to the connected component of
\* the faction that now owns it
TakenIntoComponent ==
    (last'.op = "execute_mission" /\ last'.success) =>
        /\ \E h \in DOMAIN grid.cells : grid'.cells[h].owner # grid.cells[h].owner
        /\ \A h \in DOMAIN grid.cells :
              grid'.cells[h].owner # grid.cells[h].owner =>
                  h \in Component(grid', grid'.cells[h].owner)

\* C36: right after a successful claim, disrupt or reclaim the target belongs
\* to the connected component of the executing faction; and as long as one
\* faction alone has executed missions, every cell of that faction is
\* connected to its home cells.
C36_MissionsKeepContiguity ==
    /\ [][TakenIntoComponent]_vars
    /\ [](\A color \in FactionSet :
             OthersAtHome(grid, color) => Disconnected(grid, color) = {})

\* blue has just taken the second hex of orange's chain, which is now part of
\* blue's connected component, while the hexes of orange behind it have lost
\* their link to orange's home
C36_Witness ==
    /\ last = [op |-> "execute_mission", success |-> TRUE]
    /\ Owner(grid, OrangeChain[2]) = "blue"
    /\ OrangeChain[2] \in Component(grid, "blue")
    /\ grid.cells[OrangeChain[2]].protection_until = LateHour + ProtectionDuration
    /\ Disconnected(grid, "orange") # {}

\* the founding cells of an owner
FoundingCells(owner) ==
    Range(CASE owner = "grey" -> grey_coords
            [] owner = "orange" -> orange_coords
            [] owner = "green" -> green_coords
            [] owner = "blue" -> blue_coords)

\* the cells an owner holds
CellsOf(g, owner) == {h \in DOMAIN g.cells : g.cells[h].owner = owner}

\* C37: in every state reached from a fresh or reset simulation by step_hour, a
\* cell is home exactly when it is permanent; orange, green and blue each still
\* own their 13 founding cells, so that each territory count is at least 13
\* and the least count the reward formula uses is not 0; and grey owns its 22
\* founding cells and no other cell.
C37_FoundingCellsKept ==
    /\ \A h \in DOMAIN grid.cells : grid.cells[h].is_home <=> grid.cells[h].is_permanent
    /\ \A f \in FactionSet :
          /\ Cardinality(FoundingCells(f)) = 13
          /\ FoundingCells(f) \subseteq CellsOf(grid, f)
          /\ _get_territory_counts(grid)[f] >= 13
    /\ _get_faction_with_least_territories(_get_territory_counts(grid)).count > 0
    /\ Cardinality(FoundingCells("grey")) = 22
    /\ CellsOf(grid, "grey") = FoundingCells("grey")

\* the simulation has been stepped after a reset; factions have claimed cells,
\* the grid has grown, and the hexes it grew by are neither home nor permanent
C37_Witness ==
    /\ last.op = "step_hour"
    /\ \E f \in FactionSet : credits[f] = ResetCredits
    /\ \E f \in FactionSet : _get_territory_counts(grid)[f] > 13
    /\ \E h \in DOMAIN grid.cells \ initial_hexes :
          ~grid.cells[h].is_home /\ ~grid.cells[h].is_permanent

\* the mercenaries of the pool that are on a mission
Assigned(pool) == {i \in DOMAIN pool : pool[i].assigned}

\* C38: in a fresh or reset simulation that is only stepped, every mercenary is
\* available as the turns of an hour begin; each mission executed in the hour
\* commits one mercenary, and the three factions execute at most 3 * 10
\* missions, so at most 30 mercenaries are committed in an hour and a
\* mercenary is always left for the next mission; and every assigned mercenary
\* completes its mission at current_hour + 0.5.
C38_MercenariesSuffice ==
    /\ Len(mercs) = FullPoolSize
    /\ \A i \in Assigned(mercs) : mercs[i] = Committed(current_hour)
    /\ Cardinality(Assigned(mercs)) <= 30
    /\ allocate(mercs, 1, current_hour).ok
    /\ InTurns =>
          /\ last.turns = <<>> =>
                \A i \in DOMAIN mercs : is_available(mercs[i], current_hour)
          /\ Cardinality(Assigned(mercs)) = Len(last.executed)
          /\ Len(last.executed) + Len(last.missions) <= 10 * Len(last.turns)

\* a second hour has been stepped through in which two missions were executed,
\* each with a mercenary of its own, after the first hour's mercenaries were
\* released
C38_Witness ==
    /\ last.op = "step_hour"
    /\ current_hour = 2
    /\ Len(last.executed) >= 2
    /\ Cardinality(Assigned(mercs)) = Len(last.executed)
    /\ \A i \in Assigned(mercs) : mercs[i] = Committed(current_hour)
    /\ phases[1] = "process_hour"

\* the grids an hour of step_hour can leave when no mission of its faction
\* turns succeeds: _process_hourly and, on a new day, _process_daily
QuietHour(g, pool, hour) ==
    {IF is_new_day(hour) THEN DepositAll(hourly.grid) ELSE hourly.grid :
        hourly \in _process_hourly(g, pool, hour)}

\* the grids that n such hours after `hour` can leave, and the grids they pass
\* through, the first and the last included
RECURSIVE QuietHours(_, _, _, _)
QuietHours(g, pool, hour, n) ==
    IF n = 0 THEN {g}
    ELSE UNION {QuietHours(after, pool, hour + 1, n - 1) : after \in QuietHour(g, pool, hour + 1)}

RECURSIVE WithinQuietHours(_, _, _, _)
WithinQuietHours(g, pool, hour, n) ==
    IF n = 0 THEN {g}
    ELSE {g} \cup UNION {WithinQuietHours(after, pool, hour + 1, n - 1) :
                            after \in QuietHour(g, pool, hour + 1)}

\* C39: an hour in which no mission is executed leaves one of the grids of
\* QuietHour; and of a disconnected body of n cells, n such hours leave no cell
\* claimed (each is absent or unclaimed with nothing on it), while the
\* connected component of the body's faction is the same in every grid passed
\* through.
C39_BodyGoneAfterItsSize ==
    /\ [](\A color \in FactionSet :
            LET component == Component(grid, color)
            IN  \A body \in Bodies(grid, color) :
                   LET n == Cardinality(body)
                   IN  /\ \A g \in QuietHours(grid, mercs, current_hour, n) :
                             \A h \in body : Present(g, h) => Unclaimed(g.cells[h])
                       /\ \A g \in WithinQuietHours(grid, mercs, current_hour, n) :
                             Component(g, color) = component)
    /\ [][current_hour' = current_hour + 1 =>
             grid' \in QuietHour(grid, mercs, current_hour')]_vars

\* blue has cut orange's chain behind its second cell in the week's last hour,
\* leaving a body of three cells, of which two hours have unclaimed two
C39_Witness ==
    /\ last.op = "step_hour"
    /\ current_hour = HoursPerWeek + 1
    /\ Owner(grid, OrangeChain[2]) = "blue"
    /\ Cardinality(Disconnected(grid, "orange")) = 1
    /\ Disconnected(grid, "orange") \subseteq {OrangeChain[3], OrangeChain[4], OrangeTip}

\* no disrupt and no reclaim of any faction succeeds on a cell that
\* is_protected at the current hour
ProtectedFromTaking ==
    \A h \in DOMAIN grid.cells :
        is_protected(grid.cells[h], current_hour) =>
            \A f \in FactionSet, mission_type \in {"disrupt", "reclaim"} :
                ~execute_mission(grid, mercs, f, Mission(mission_type, h, f),
                                 current_hour).success

\* the cells of the disconnected bodies of g that are without an owner in `after`
ShrunkCells(g, after) ==
    {c \in UNION {Disconnected(g, color) : color \in FactionSet} :
        Present(after, c) /\ Owner(after, c) = None}

\* what ai.execute_mission returns for a claim of faction f on hex c made in
\* the hour step_hour has just advanced to
ClaimSucceeds(f, c) ==
    execute_mission(grid', mercs', f, Mission("claim", c, f), current_hour').success

\* C40 as stated: protection keeps off disrupt and reclaim only; every cell the
\* hourly shrink takes from a disconnected body, protected or not, is left
\* without owner, protection and resources, and a claim of any faction on it
\* in the same hour succeeds.
C40_ShrunkCellOpenToEveryFaction ==
    /\ []ProtectedFromTaking
    /\ [][current_hour' = current_hour + 1 =>
             \A c \in ShrunkCells(grid, grid') :
                 /\ Unclaimed(grid'.cells[c])
                 /\ \A f \in FactionSet : ClaimSucceeds(f, c)]_vars

\* C40, amended: protection keeps off disrupt and reclaim only; every cell the
\* hourly shrink takes from a disconnected body, protected or not, is left
\* without owner, protection and resources, and a claim on it in the same hour
\* succeeds for exactly the factions whose connected territory contains or
\* touches it.
C40_ShrunkCellOpenToReachingFactions ==
    /\ []ProtectedFromTaking
    /\ [][current_hour' = current_hour + 1 =>
             \A c \in ShrunkCells(grid, grid') :
                 /\ Unclaimed(grid'.cells[c])
                 /\ \A f \in FactionSet :
                       ClaimSucceeds(f, c)
                          <=> _is_hex_reachable(grid', c, Component(grid', f))]_vars

\* the shrink of the hour after the cut has reset the near end of orange's
\* body while the protection orange's fourth cell gave it was running, as it
\* still is on the fourth cell itself, and blue has claimed the cell in that
\* same hour
C40_Witness ==
    /\ current_hour = ShrinkHour
    /\ last = [op |-> "execute_mission", success |-> TRUE]
    /\ Owner(grid, OrangeChain[3]) = "blue"
    /\ Owner(grid, OrangeChain[4]) = "orange"
    /\ is_protected(grid.cells[OrangeChain[4]], current_hour)
    /\ grid.cells[OrangeChain[3]].protection_until = ShrinkHour + ProtectionDuration

====
